---- MODULE Spec2Model ----
(***************************************************************************)
(* Transport layer of uhppoted-lib-python: one call of a transport         *)
(* operation (UDPAsync.send / broadcast / listen, TCPAsync.send, TCP.send) *)
(* driven through the UhppoteAsync dispatcher, against an environment that *)
(* delivers datagrams, stream chunks, EOF, errors, timeouts and task       *)
(* cancellation in every order. UhppoteAsync.listen is the task that runs  *)
(* UDPAsync.listen and decodes what it receives; QSpec is the work queue   *)
(* of the event-listener examples that its handler feeds.                  *)
(*                                                                         *)
(* Python indexes bytes from 0, TLA+ sequences from 1: Byte(p, i) reads    *)
(* the byte the source calls p[i].                                         *)
(***************************************************************************)
EXTENDS Integers, Sequences, FiniteSets, TLC

\* ---------------------------------------------------------------- bounds
MaxRx == 3        \* deliveries (datagrams, stream chunks, recv calls) per call
NTags == 2        \* distinct payloads the peers can send
MaxEvents == 10   \* events that arrive at a queued consumer
TimeLimit == 2    \* the timeout of a blocking TCP send, in ticks
MaxClock == 4     \* ticks observed while a blocking TCP send reads

\* ------------------------------------------------------ program constants
FrameLen == 64
SET_IP == 150              \* 0x96
GET_CONTROLLER == 148      \* 0x94
SOM == 23                  \* 0x17
SOM_v6_62 == 25            \* 0x19
EVENT == 32                \* 0x20
BROADCAST_PORT == 60000
LISTEN_PORT == 60001
BROADCAST_ADDR == "255.255.255.255:60000"
QUEUE_SIZE == 8

PacketLens == {FrameLen - 1, FrameLen, FrameLen + 1}
ChunkLens == {24, 40, FrameLen}
SrcPorts == {BROADCAST_PORT, BROADCAST_PORT + 2}

VARIABLES
    api,         \* dispatcher function being called
    dest_addr,   \* controller address of the call ("None" or an address)
    protocol,    \* "udp" | "tcp"
    call,        \* transport operation selected for the call
    request,     \* the 64 byte request frame
    pc,          \* position of the calling task
    sock,        \* "none" | "open" | "closed"
    src_port,    \* locally bound port (0 until bound)
    done,        \* the protocol's completion future (_done)
    replies,     \* BroadcastProtocol._replies
    buffer,      \* tcp_async.SendProtocol._buffer
    sent,        \* frames handed to sendto / write / sendall
    rx,          \* everything the socket has delivered to the call, in order
    events,      \* packets passed to the listener's on_event
    timedout,    \* the wait_for timer has fired
    cancelling,  \* task.cancel() has been requested
    lost,        \* connection_lost has been called on the protocol
    eofReads,    \* recv calls of TCP.send that returned b'' (peer closed)
    outcome,     \* what the transport call returned or raised
    response,    \* what the dispatcher function returned or raised
    trace,       \* EOF / connection loss / timer / cancel events, in order,
                 \* each with whether the future was still pending
    remote,      \* where the socket sends: address, and whether it is connected
    \* UhppoteAsync.listen
    kwargs,      \* the caller passes on_error= / close= keyword arguments
    closeSet,    \* the caller has set its close event
    lpc,         \* position of the task running UhppoteAsync.listen
    delivered,   \* events passed to the caller's on_event, in order
    printed,     \* errors the listener's handler has printed
    errors,      \* errors passed to the caller's on_error, in order
    \* queued event consumers of the examples
    consumer,    \* which on_event the example wires to the listener
    q,           \* the work queue
    tasks,       \* events whose enqueueing has been started but not yet run
    arrived,     \* number of events that have arrived so far
    taken,       \* event process_events is working on (0: waiting in q.get)
    processed,   \* events process_event has completed, in order
    warned,      \* event indexes of the "queue full" warnings
    \* dispatcher functions: decoding the reply
    decoded,     \* the structs the dispatcher function decoded, in order
    rop,         \* the record-level function that was called
    rargs,       \* its arguments: controller, card number, index, profile id
    rreply,      \* the 64 byte reply the transport returned to it
    rresult,     \* what it returned or raised
    \* concurrent calls on one shared transport object
    calls,       \* per call: its socket, its future, what it received, its result
    wire,        \* deliveries so far: how many, and which data on which port
    \* time, for the blocking TCP send
    clock,       \* ticks since _read set the socket timeout
    recv_start,  \* the clock when the recv call in progress was made
    \* the blocking and the cooperative TCP send, side by side
    twin,        \* the peer's behaviour and what each of the two calls made of it
    \* the transport object the calls are made on
    self         \* its attributes

vars == <<api, dest_addr, protocol, call, request, pc, sock, src_port, done,
          replies, buffer, sent, rx, events, timedout, cancelling, lost,
          eofReads, outcome, response, trace, remote,
          kwargs, closeSet, lpc, delivered, printed, errors,
          consumer, q, tasks, arrived, taken, processed, warned,
          decoded, rop, rargs, rreply, rresult, calls, wire,
          clock, recv_start, twin, self>>

rvars == <<rop, rargs, rreply, rresult>>
cvars == <<calls, wire>>
tvars == <<clock, recv_start>>
ovars == <<twin, self>>
lvars == <<kwargs, closeSet, lpc, delivered, printed, errors>>
qvars == <<consumer, q, tasks, arrived, taken, processed, warned>>

\* ----------------------------------------------------------------- frames
Byte(p, i) == p[i + 1]

Request(fn) ==
    [i \in 1..FrameLen |-> IF i = 1 THEN SOM ELSE IF i = 2 THEN fn ELSE 0]

\* a datagram of n bytes from a controller, payload identified by tag
Packet(tag, n) ==
    [i \in 1..n |-> IF i = 1 THEN SOM
                    ELSE IF i = 2 THEN GET_CONTROLLER
                    ELSE IF i = 5 THEN tag ELSE 0]

\* a 64 byte datagram that is no reply to a get-controller request: its
\* function code is 0xff
WrongFunction == [Packet(1, FrameLen) EXCEPT ![2] = 255]

\* what may arrive on a UDP socket: 64 byte packets with distinct payloads,
\* packets of the other lengths, and a 64 byte packet of another function
Datagrams ==
    {Packet(t, FrameLen) : t \in 1..NTags} \cup {Packet(1, n) : n \in PacketLens}
      \cup {WrongFunction}

\* an event datagram of n bytes: controller serial number in bytes 4..7,
\* event index in bytes 8..11 (little-endian)
EventPacket(som, fn, index, n) ==
    [i \in 1..n |-> IF i = 1 THEN som
                    ELSE IF i = 2 THEN fn
                    ELSE IF i = 5 THEN 1
                    ELSE IF i = 9 THEN index ELSE 0]

\* what may arrive on the listen socket: events with distinct indexes, a
\* v6.62 event, a frame with function code 0xff, packets of other lengths
EventDatagrams ==
    {EventPacket(SOM, EVENT, t, FrameLen) : t \in 1..NTags}
      \cup {EventPacket(SOM_v6_62, EVENT, NTags + 1, FrameLen),
            EventPacket(SOM, 255, 1, FrameLen)}
      \cup {EventPacket(SOM, EVENT, 1, n) : n \in PacketLens \ {FrameLen}}

\* byte at (1-based) position p of the TCP peer's reply stream
StreamByte(tag, p) ==
    IF p = 1 THEN SOM ELSE IF p = 2 THEN GET_CONTROLLER ELSE (tag * 16 + p) % 256

Chunk(tag, from, n) == [i \in 1..n |-> StreamByte(tag, from + i)]

\* the payloads the peer's stream may carry: one payload per connection
StreamTags(chunks) ==
    IF chunks = <<>> THEN 1..NTags
    ELSE {t \in 1..NTags : chunks[1][3] = StreamByte(t, 3)}

RECURSIVE TotalLen(_)
TotalLen(s) == IF s = <<>> THEN 0 ELSE Len(Head(s)) + TotalLen(Tail(s))

RECURSIVE Concat(_)
Concat(s) == IF s = <<>> THEN <<>> ELSE Head(s) \o Concat(Tail(s))

Is64(p) == Len(p) = FrameLen

\* --------------------------------------------------------------- futures
Pending == [state |-> "pending", exc |-> "", value |-> <<>>, isNone |-> FALSE]
Result(p) == [state |-> "result", exc |-> "", value |-> <<p>>, isNone |-> FALSE]
ResultNone == [state |-> "result", exc |-> "", value |-> <<>>, isNone |-> TRUE]
Exception(e) == [state |-> "exception", exc |-> e, value |-> <<>>, isNone |-> FALSE]
CancelledFuture == [state |-> "cancelled", exc |-> "", value |-> <<>>, isNone |-> FALSE]

IsDone(f) == f.state # "pending"

\* -------------------------------------------------------------- outcomes
NoOutcome == [kind |-> "none", exc |-> "", value |-> <<>>, isNone |-> FALSE]
Return(p) == [kind |-> "return", exc |-> "", value |-> <<p>>, isNone |-> FALSE]
ReturnNone == [kind |-> "return", exc |-> "", value |-> <<>>, isNone |-> TRUE]
ReturnList(l) == [kind |-> "return", exc |-> "", value |-> l, isNone |-> FALSE]
Raise(e) == [kind |-> "raise", exc |-> e, value |-> <<>>, isNone |-> FALSE]

NoResponse == [kind |-> "none", exc |-> "", value |-> ""]

\* ------------------------------------------------------------ dispatcher
\* variant: the protocol alone selects the transport
Route_by_protocol(addr, proto) ==
    IF proto = "tcp" THEN "TCPAsync.send" ELSE "UDPAsync.send"

\* UhppoteAsync._send: TCP when protocol is tcp and an address is given
Route(addr, proto) ==
    IF proto = "tcp" /\ addr # "None" THEN "TCPAsync.send" ELSE "UDPAsync.send"

\* ------------------------------------------------- decode: reply header
unpack_uint32(packet, offset) ==
    Byte(packet, offset) + 256 * Byte(packet, offset + 1)
      + 65536 * Byte(packet, offset + 2) + 16777216 * Byte(packet, offset + 3)

HexDigit(d) ==
    CASE d = 0 -> "0" [] d = 1 -> "1" [] d = 2 -> "2" [] d = 3 -> "3"
      [] d = 4 -> "4" [] d = 5 -> "5" [] d = 6 -> "6" [] d = 7 -> "7"
      [] d = 8 -> "8" [] d = 9 -> "9" [] d = 10 -> "a" [] d = 11 -> "b"
      [] d = 12 -> "c" [] d = 13 -> "d" [] d = 14 -> "e" [] d = 15 -> "f"

\* a byte formatted as two hex digits
Hex(b) == HexDigit(b \div 16) \o HexDigit(b % 16)

\* the message of the error a decoder raises for the reply to a request with
\* function code `code` ("" when the reply decodes)
ReplyError(code, packet) ==
    IF Byte(packet, 0) \notin {SOM, SOM_v6_62}
    THEN "invalid reply start of message byte (" \o Hex(Byte(packet, 0)) \o ")"
    ELSE IF Byte(packet, 1) # code
    THEN "invalid reply function code (" \o Hex(Byte(packet, 1)) \o ")"
    ELSE ""

\* the struct decode.get_controller_response returns
get_controller_response(packet) == [controller |-> unpack_uint32(packet, 4)]

\* the replies the dispatcher function decodes, in order, up to and
\* including the first that does not decode
RECURSIVE Decodable(_, _)
Decodable(code, list) ==
    IF list = <<>> THEN <<>>
    ELSE IF ReplyError(code, Head(list)) # "" THEN <<Head(list)>>
    ELSE <<Head(list)>> \o Decodable(code, Tail(list))

\* ------------------------------------------ dispatcher: the reply decoded
InvalidReply(msg) == [kind |-> "raise", exc |-> "InvalidResponse", value |-> msg]

\* variant: a reply that does not decode is passed over
Dispatch_skips_invalid(fn, req, out) ==
    IF out.kind = "raise" THEN [kind |-> "raise", exc |-> out.exc, value |-> ""]
    ELSE IF fn = "set_ip" THEN [kind |-> "return", exc |-> "", value |-> "True"]
    ELSE IF fn = "get_all_controllers"
         THEN [kind |-> "return", exc |-> "", value |-> "list"]
    ELSE IF out.isNone THEN [kind |-> "return", exc |-> "", value |-> "None"]
    ELSE [kind |-> "return", exc |-> "", value |-> "response"]

\* what the dispatcher function makes of the transport's outcome: the
\* replies are decoded in order and the first decode error is raised
Dispatch(fn, req, out) ==
    LET code == Byte(req, 1)
        seen == Decodable(code, out.value)
        last == IF seen = <<>> THEN "" ELSE ReplyError(code, seen[Len(seen)])
    IN
    IF out.kind = "raise" THEN [kind |-> "raise", exc |-> out.exc, value |-> ""]
    ELSE IF fn = "set_ip" THEN [kind |-> "return", exc |-> "", value |-> "True"]
    ELSE IF last # "" THEN InvalidReply(last)
    ELSE IF fn = "get_all_controllers"
         THEN [kind |-> "return", exc |-> "", value |-> "list"]
    ELSE IF out.isNone THEN [kind |-> "return", exc |-> "", value |-> "None"]
    ELSE [kind |-> "return", exc |-> "", value |-> "response"]

\* variant: the newest reply comes first in the list
Records_newest_first(fn, req, out) ==
    IF Dispatch(fn, req, out).kind # "return" \/ fn = "set_ip" THEN <<>>
    ELSE [i \in 1..Len(out.value) |->
             get_controller_response(out.value[Len(out.value) + 1 - i])]

\* variant: the replies decoded before the failure are kept
Records_keeps_partial_list(fn, req, out) ==
    IF out.kind # "return" \/ fn = "set_ip" THEN <<>>
    ELSE [i \in 1..(Len(Decodable(Byte(req, 1), out.value)) - 1) |->
             get_controller_response(out.value[i])]

\* the structs the dispatcher function returns: one per reply, in order
Records(fn, req, out) ==
    IF Dispatch(fn, req, out).kind # "return" \/ fn = "set_ip" THEN <<>>
    ELSE [i \in 1..Len(out.value) |-> get_controller_response(out.value[i])]

\* ---------------------------------------------------------- decode.event
\* the error decode.event raises for the packet ("" when it decodes)
DecodeError(packet) ==
    IF Byte(packet, 0) \notin {SOM, SOM_v6_62}
    THEN <<"invalid reply start of message byte", Byte(packet, 0)>>
    ELSE IF Byte(packet, 1) # EVENT
    THEN <<"invalid reply function code", Byte(packet, 1)>>
    ELSE <<>>

DecodeOk(packet) == DecodeError(packet) = <<>>

\* the event decode.event returns
Event(packet) ==
    [controller |-> unpack_uint32(packet, 4), event_index |-> unpack_uint32(packet, 8)]

\* ======================================== record-level dispatcher functions
\* The "record" variants of the dispatcher functions take the decoded reply,
\* validate it against the request and promote sentinel values to errors.
\* Card numbers are kept as the four little-endian bytes of the wire, so that
\* 0xffffffff is a value of the model; serial numbers, event indexes and
\* profile ids are the numbers the tests use.
CONTROLLER == 405419896
CONTROLLER_OTHER == 303986753
CARD == <<162, 152, 124, 0>>            \* 8165538
CARD_OTHER == <<158, 122, 153, 0>>      \* 10058398
NOT_FOUND == <<0, 0, 0, 0>>             \* card number 0
DELETED == <<255, 255, 255, 255>>       \* card number 0xffffffff
EVENT_INDEX == 29
EVENT_INDEX_OVERWRITTEN == 73
EVENT_OVERWRITTEN == 255                \* event type 0xff
TIME_PROFILE == 29
TIME_PROFILE_NOT_FOUND == 92

RecordOps ==
    {"get_status_record", "get_card_record", "get_card_record_by_index",
     "put_card_record", "get_event_record", "get_time_profile_record"}

NoArgs == [controller |-> 0, card |-> NOT_FOUND, index |-> 0, profile |-> 0]

\* a decoded reply: the fields the record-level functions look at
Response(controller, card, index, type, profile) ==
    [controller |-> controller, card_number |-> card, index |-> index,
     event_type |-> type, profile |-> profile]

NoReply == Response(0, NOT_FOUND, 0, 0, 0)

\* nothing has been delivered to a socket of concurrent calls
NoDeliveries == [n |-> 0, seen |-> {}]

NoResult == [kind |-> "none", exc |-> "", msg |-> "", value |-> <<>>]
Record(r) == [kind |-> "return", exc |-> "", msg |-> "", value |-> <<r>>]
Error(exc, msg) == [kind |-> "raise", exc |-> exc, msg |-> msg, value |-> <<>>]

\* variant: the serial number of the reply is not looked at
InvalidController_never(a, r) == FALSE

\* the reply comes from another controller than the one asked
InvalidController(a, r) == r.controller # a.controller

InvalidControllerError(r) ==
    Error("InvalidResponse", "invalid controller (" \o ToString(r.controller) \o ")")

get_status_record(a, r) ==
    IF InvalidController(a, r) THEN InvalidControllerError(r) ELSE Record(r)

\* variant: any card of the right controller is returned
get_card_record_any_card(a, r) ==
    IF InvalidController(a, r) THEN InvalidControllerError(r)
    ELSE IF r.card_number = NOT_FOUND
    THEN Error("CardNotFound", "card not found")
    ELSE IF r.card_number = DELETED
    THEN Error("CardDeleted", "card deleted")
    ELSE Record(r)

get_card_record(a, r) ==
    IF InvalidController(a, r) THEN InvalidControllerError(r)
    ELSE IF r.card_number = NOT_FOUND
    THEN Error("CardNotFound", "card not found")
    ELSE IF r.card_number = DELETED
    THEN Error("CardDeleted", "card deleted")
    ELSE IF r.card_number # a.card
    THEN Error("InvalidResponse",
               "invalid card (" \o ToString(unpack_uint32(r.card_number, 0)) \o ")")
    ELSE Record(r)

\* variant: a deleted card is reported as not found
get_card_record_by_index_not_found(a, r) ==
    IF InvalidController(a, r) THEN InvalidControllerError(r)
    ELSE IF r.card_number \in {NOT_FOUND, DELETED}
    THEN Error("CardNotFound", "card not found")
    ELSE Record(r)

get_card_record_by_index(a, r) ==
    IF InvalidController(a, r) THEN InvalidControllerError(r)
    ELSE IF r.card_number = NOT_FOUND
    THEN Error("CardNotFound", "card not found")
    ELSE IF r.card_number = DELETED
    THEN Error("CardDeleted", "card deleted")
    ELSE Record(r)

put_card_record(a, r) ==
    IF InvalidController(a, r) THEN InvalidControllerError(r) ELSE Record(r)

\* variant: an overwritten event is returned as a record
get_event_record_returns_overwritten(a, r) ==
    IF InvalidController(a, r) THEN InvalidControllerError(r)
    ELSE IF r.index = 0 THEN Error("EventNotFound", "event not found")
    ELSE Record(r)

get_event_record(a, r) ==
    IF InvalidController(a, r) THEN InvalidControllerError(r)
    ELSE IF r.index = 0 THEN Error("EventNotFound", "event not found")
    ELSE IF r.event_type = EVENT_OVERWRITTEN
    THEN Error("EventOverwritten", "event overwritten")
    ELSE Record(r)

\* variant: the error names the profile id of the reply
get_time_profile_record_names_reply(a, r) ==
    IF InvalidController(a, r) THEN InvalidControllerError(r)
    ELSE IF r.profile = 0
    THEN Error("TimeProfileNotFound",
               "time profile " \o ToString(r.profile) \o " not found")
    ELSE Record(r)

get_time_profile_record(a, r) ==
    IF InvalidController(a, r) THEN InvalidControllerError(r)
    ELSE IF r.profile = 0
    THEN Error("TimeProfileNotFound",
               "time profile " \o ToString(a.profile) \o " not found")
    ELSE Record(r)

RecordResult(op, a, r) ==
    CASE op = "get_status_record" -> get_status_record(a, r)
      [] op = "get_card_record" -> get_card_record(a, r)
      [] op = "get_card_record_by_index" -> get_card_record_by_index(a, r)
      [] op = "put_card_record" -> put_card_record(a, r)
      [] op = "get_event_record" -> get_event_record(a, r)
      [] op = "get_time_profile_record" -> get_time_profile_record(a, r)

\* -------------------------------------------- UhppoteAsync.listen: handler
\* what the handler prints when on_event raised
OnEventError == <<"on_event raised", 0>>

\* on_event(event) is called; raises tells whether it raises
OnEvent(dl, pr, event, raises) ==
    <<Append(dl, event), IF raises THEN Append(pr, OnEventError) ELSE pr>>

\* variant: the newest event is put in front
Handler_newest_first(dl, pr, packet, raises) ==
    IF DecodeOk(packet)
    THEN <<<<Event(packet)>> \o dl, IF raises THEN Append(pr, OnEventError) ELSE pr>>
    ELSE <<dl, Append(pr, DecodeError(packet))>>

\* variant: nothing is delivered any more once a packet failed to decode
Handler_stops_at_error(dl, pr, packet, raises) ==
    IF \E i \in 1..Len(pr) : pr[i] # OnEventError THEN <<dl, pr>>
    ELSE IF DecodeOk(packet) THEN OnEvent(dl, pr, Event(packet), raises)
    ELSE <<dl, Append(pr, DecodeError(packet))>>

\* variant: on_event is not called any more once it has raised
Handler_stops_at_raise(dl, pr, packet, raises) ==
    IF DecodeOk(packet)
    THEN IF \E i \in 1..Len(pr) : pr[i] = OnEventError THEN <<dl, pr>>
         ELSE OnEvent(dl, pr, Event(packet), raises)
    ELSE <<dl, Append(pr, DecodeError(packet))>>

\* handler(packet): decode the packet and call on_event with the event; an
\* exception, of decode.event or of on_event, is caught and printed. Gives
\* <<delivered, printed>>.
Handler(dl, pr, packet, raises) ==
    IF DecodeOk(packet) THEN OnEvent(dl, pr, Event(packet), raises)
    ELSE <<dl, Append(pr, DecodeError(packet))>>

\* ------------------------------------------------------------- endpoints
NoRemote == [addr |-> "None", connected |-> FALSE]

\* variant: the datagram socket is never connected to the controller
UDPSend_endpoint_unconnected(addr) ==
    IF addr = "None" THEN [addr |-> BROADCAST_ADDR, connected |-> FALSE]
    ELSE [addr |-> addr, connected |-> FALSE]

\* UDPAsync.send: without an address an unconnected socket that sends to the
\* broadcast address, with one a socket connected (remote_addr) to it
UDPSend_endpoint(addr) ==
    IF addr = "None" THEN [addr |-> BROADCAST_ADDR, connected |-> FALSE]
    ELSE [addr |-> addr, connected |-> TRUE]

\* UDPAsync.broadcast: unconnected, sends to the broadcast address
Broadcast_endpoint == [addr |-> BROADCAST_ADDR, connected |-> FALSE]

\* TCPAsync.send / TCP.send: a stream connected to the controller
TCP_endpoint(addr) == [addr |-> addr, connected |-> TRUE]

\* ------------------------------------------------- the transport object
\* the arguments of the constructor: the defaults, and one of everything else
DefaultArgs ==
    [bind |-> "0.0.0.0", broadcast |-> BROADCAST_ADDR,
     listen |-> "0.0.0.0:60001", debug |-> FALSE]

ConstructorArgs ==
    {DefaultArgs,
     [bind |-> "192.168.1.10", broadcast |-> "192.168.1.255:60000",
      listen |-> "192.168.1.10:60001", debug |-> TRUE]}

\* UDPAsync.__init__ / TCPAsync.__init__ / TCP.__init__: the attributes of
\* the object; percall stands for every attribute other than these four
UDPAsync_init(args) ==
    [bind |-> <<args.bind, 0>>, broadcast |-> args.broadcast,
     listen |-> args.listen, debug |-> args.debug, percall |-> <<>>]

\* no twin calls are being compared
NoTwin ==
    [tag |-> 0, chunks |-> <<>>, ending |-> "none", i |-> 0, ended |-> FALSE,
     blocking |-> NoOutcome, buffer |-> <<>>, done |-> Pending, coop |-> NoOutcome]

Cooperative == {"UDPAsync.send", "UDPAsync.broadcast", "UDPAsync.listen", "TCPAsync.send"}

Init ==
    /\ api \in {"get_all_controllers", "get_controller", "set_ip", "listen", "TCP.send"}
    /\ dest_addr \in {"None", "192.168.1.100:60000"}
    /\ protocol \in {"udp", "tcp"}
    /\ request \in {Request(GET_CONTROLLER), Request(SET_IP)}
    /\ api = "set_ip" <=> Byte(request, 1) = SET_IP /\ api # "TCP.send"
    /\ api \in {"get_all_controllers", "listen"} => dest_addr = "None" /\ protocol = "udp"
    /\ api = "TCP.send" => dest_addr # "None" /\ protocol = "tcp"
    /\ call = CASE api = "get_all_controllers" -> "UDPAsync.broadcast"
                [] api = "listen" -> "UDPAsync.listen"
                [] api = "TCP.send" -> "TCP.send"
                [] OTHER -> Route(dest_addr, protocol)
    /\ pc = "start"
    /\ sock = "none"
    /\ src_port = 0
    /\ done = Pending
    /\ replies = <<>>
    /\ buffer = <<>>
    /\ sent = <<>>
    /\ rx = <<>>
    /\ events = <<>>
    /\ timedout = FALSE
    /\ cancelling = FALSE
    /\ lost = FALSE
    /\ eofReads = 0
    /\ outcome = NoOutcome
    /\ response = NoResponse
    /\ trace = <<>>
    /\ remote = NoRemote
    /\ kwargs \in (IF api = "listen" THEN BOOLEAN ELSE {FALSE})
    /\ closeSet = FALSE
    /\ lpc = IF api = "listen" THEN "start" ELSE "none"
    /\ delivered = <<>>
    /\ printed = <<>>
    /\ errors = <<>>
    /\ consumer = "none"
    /\ q = <<>>
    /\ tasks = <<>>
    /\ arrived = 0
    /\ taken = 0
    /\ processed = <<>>
    /\ warned = <<>>
    /\ decoded = <<>>
    /\ rop = "none"
    /\ rargs = NoArgs
    /\ rreply = NoReply
    /\ rresult = NoResult
    /\ calls = <<>>
    /\ wire = NoDeliveries
    /\ clock = 0
    /\ recv_start = 0
    /\ twin = NoTwin
    /\ self = UDPAsync_init(DefaultArgs)

\* ------------------------------------------------- udp_async.SendProtocol
\* connection_made: transmit the request; set-ip completes at once
UDPSend_connection_made(f, req) ==
    IF Byte(req, 1) = SET_IP THEN ResultNone ELSE f

\* variant: no check that the future is still pending
UDPSend_datagram_received_unguarded(f, packet) ==
    IF Len(packet) = FrameLen THEN Result(packet) ELSE f

\* datagram_received: the first 64 byte packet resolves the future
UDPSend_datagram_received(f, packet) ==
    IF Len(packet) = FrameLen /\ ~IsDone(f) THEN Result(packet) ELSE f

\* connection_lost: set_exception is unguarded; on a future that is already
\* done it raises InvalidStateError inside the callback and changes nothing
UDPSend_connection_lost(f, exc) ==
    IF exc # "None" /\ ~IsDone(f) THEN Exception("ConnectionResetError") ELSE f

\* connection_lost: TRUE when the callback calls set_exception on the future
UDPSend_connection_lost_sets(f, exc) == exc # "None"

\* variant: cancellation of the awaited future always reported as a timeout
UDPSend_run_cancel_as_timeout(f, cancelled) ==
    IF f.state = "cancelled" THEN Raise("TimeoutError")
    ELSE IF cancelled THEN Raise("CancelledError")
    ELSE IF f.state = "exception" THEN Raise(f.exc)
    ELSE IF f.isNone THEN ReturnNone
    ELSE Return(f.value[1])

\* run: the outcome of wait_for(self._done, timeout) as seen by the caller
UDPSend_run(f, cancelled) ==
    IF cancelled THEN Raise("CancelledError")
    ELSE IF f.state = "cancelled" THEN Raise("TimeoutError")
    ELSE IF f.state = "exception" THEN Raise(f.exc)
    ELSE IF f.isNone THEN ReturnNone
    ELSE Return(f.value[1])

\* -------------------------------------------- udp_async.BroadcastProtocol
\* variant: no self-broadcast guard
Broadcast_guard_off(port, dest_port) == FALSE

\* connection_made: TRUE when the self-broadcast guard rejects the socket
Broadcast_guard(port, dest_port) == port = dest_port

\* variant: newest reply first
Broadcast_datagram_received_prepend(list, packet) ==
    IF Len(packet) = FrameLen THEN <<packet>> \o list ELSE list

Broadcast_datagram_received(list, packet) ==
    IF Len(packet) = FrameLen THEN Append(list, packet) ELSE list

\* variant: an exception on the future ends the call with the list
Broadcast_run_returns_on_error(f, list, cancelled) ==
    IF cancelled THEN Raise("CancelledError")
    ELSE ReturnList(list)

Broadcast_run(f, list, cancelled) ==
    IF cancelled THEN Raise("CancelledError")
    ELSE IF f.state = "cancelled" THEN ReturnList(list)
    ELSE IF f.state = "exception" THEN Raise(f.exc)
    ELSE ReturnList(list)

\* ------------------------------------------------ udp_async.EventProtocol
\* variant: no length check
Event_datagram_received_any(evs, data) == Append(evs, data)

Event_datagram_received(evs, data) ==
    IF Len(data) = FrameLen THEN Append(evs, data) ELSE evs

\* ------------------------------------------------- tcp_async.SendProtocol
\* variant: set-ip waits for a reply like every other request
TCPSend_connection_made_waits(f, req) == f

TCPSend_connection_made(f, req) ==
    IF Byte(req, 1) = SET_IP THEN ResultNone ELSE f

\* variant: the future is resolved with all the bytes held
TCPSend_data_received_whole_buffer(f, buf) ==
    IF Len(buf) >= FrameLen /\ ~IsDone(f) THEN Result(buf) ELSE f

\* data_received, applied to the buffer already extended with the data
TCPSend_data_received(f, buf) ==
    IF Len(buf) >= FrameLen /\ ~IsDone(f) THEN Result(SubSeq(buf, 1, FrameLen)) ELSE f

\* variant: EOF not handled
TCPSend_eof_received_ignored(f) == f

TCPSend_eof_received(f) ==
    IF ~IsDone(f) THEN Exception("EOFError") ELSE f

TCPSend_connection_lost(f, exc) ==
    IF exc # "None" /\ ~IsDone(f) THEN Exception("ConnectionResetError")
    ELSE IF ~IsDone(f) THEN Exception("EOFError")
    ELSE f

\* eof_received / connection_lost: TRUE when the callback sets an exception
\* on the future
TCPSend_eof_received_sets(f) == ~IsDone(f)

TCPSend_connection_lost_sets(f, exc) == ~IsDone(f)

\* variant: a timeout returns None instead of raising
TCPSend_run_timeout_as_none(f, cancelled) ==
    IF cancelled THEN Raise("CancelledError")
    ELSE IF f.state = "cancelled" THEN ReturnNone
    ELSE IF f.state = "exception" THEN Raise(f.exc)
    ELSE IF f.isNone THEN ReturnNone
    ELSE Return(f.value[1])

TCPSend_run(f, cancelled) ==
    IF cancelled THEN Raise("CancelledError")
    ELSE IF f.state = "cancelled" THEN Raise("TimeoutError")
    ELSE IF f.state = "exception" THEN Raise(f.exc)
    ELSE IF f.isNone THEN ReturnNone
    ELSE Return(f.value[1])

\* ------------------------------------------- cooperative calls: lifecycle
\* UDPAsync.send: create_datagram_endpoint binds the socket and calls
\* SendProtocol.connection_made, which transmits the request
UDPSend_Open ==
    /\ call = "UDPAsync.send" /\ pc = "start"
    /\ \E port \in SrcPorts : src_port' = port
    /\ sock' = "open"
    /\ sent' = Append(sent, request)
    /\ done' = UDPSend_connection_made(done, request)
    /\ remote' = UDPSend_endpoint(dest_addr)
    /\ pc' = "opened"
    /\ UNCHANGED <<decoded, rvars, cvars, tvars, ovars, lvars, qvars,
                   api, dest_addr, protocol, call, request, replies, buffer, rx,
                   events, timedout, cancelling, lost, eofReads, outcome, response, trace>>

\* UDPAsync.broadcast: create_datagram_endpoint + BroadcastProtocol.connection_made
Broadcast_Open ==
    /\ call = "UDPAsync.broadcast" /\ pc = "start"
    /\ \E port \in SrcPorts :
         /\ src_port' = port
         /\ IF Broadcast_guard(port, BROADCAST_PORT)
            THEN /\ done' = Exception("RuntimeError")
                 /\ sock' = "closed"
                 /\ sent' = sent
            ELSE /\ done' = done
                 /\ sock' = "open"
                 /\ sent' = Append(sent, request)
    /\ remote' = Broadcast_endpoint
    /\ pc' = "opened"
    /\ UNCHANGED <<decoded, rvars, cvars, tvars, ovars, lvars, qvars,
                   api, dest_addr, protocol, call, request, replies, buffer, rx,
                   events, timedout, cancelling, lost, eofReads, outcome, response, trace>>

\* the task of UDPAsync.listen exists once UhppoteAsync.listen has created it
Started == call = "UDPAsync.listen" => lpc \in {"sleep", "cancelled", "stopping"}

\* UDPAsync.listen: create_datagram_endpoint on the listen address
Listen_Open ==
    /\ call = "UDPAsync.listen" /\ pc = "start" /\ Started
    /\ src_port' = LISTEN_PORT
    /\ sock' = "open"
    /\ pc' = "opened"
    /\ UNCHANGED <<decoded, rvars, cvars, tvars, ovars, lvars, qvars, remote,
                   api, dest_addr, protocol, call, request, done, replies, buffer,
                   sent, rx, events, timedout, cancelling, lost, eofReads, outcome,
                   response, trace>>

\* TCPAsync.send: create_connection + SendProtocol.connection_made
TCPSend_Open ==
    /\ call = "TCPAsync.send" /\ pc = "start"
    /\ \E port \in SrcPorts : src_port' = port
    /\ sock' = "open"
    /\ sent' = Append(sent, request)
    /\ done' = TCPSend_connection_made(done, request)
    /\ remote' = TCP_endpoint(dest_addr)
    /\ pc' = "opened"
    /\ UNCHANGED <<decoded, rvars, cvars, tvars, ovars, lvars, qvars,
                   api, dest_addr, protocol, call, request, replies, buffer, rx,
                   events, timedout, cancelling, lost, eofReads, outcome, response, trace>>

\* bind / connect fails: the endpoint factory closes its socket and raises
OpenFails ==
    /\ call \in Cooperative /\ pc = "start" /\ ~cancelling /\ Started
    /\ sock' = "closed"
    /\ outcome' = Raise("OSError")
    /\ response' = IF api = "listen" THEN response
                 ELSE Dispatch(api, request, outcome')
    /\ decoded' = IF api = "listen" THEN decoded
                ELSE Records(api, request, outcome')
    /\ pc' = "done"
    /\ UNCHANGED <<rvars, cvars, tvars, ovars, lvars, qvars, remote,
                   api, dest_addr, protocol, call, request, src_port, done, replies,
                   buffer, sent, rx, events, timedout, cancelling, lost, eofReads, trace>>

\* the endpoint factory returns and the task awaits protocol.run(timeout)
\* (asyncio.sleep(inf) for the listener)
Await ==
    /\ call \in Cooperative /\ pc = "opened" /\ ~cancelling
    /\ pc' = "run"
    /\ UNCHANGED <<decoded, rvars, cvars, tvars, ovars, lvars, qvars, remote,
                   api, dest_addr, protocol, call, request, sock, src_port, done,
                   replies, buffer, sent, rx, events, timedout, cancelling, lost,
                   eofReads, outcome, response, trace>>

\* task.cancel(): cancels the future the task is awaiting (the listener's
\* task is cancelled by UhppoteAsync.listen only)
Cancel ==
    /\ call \in Cooperative \ {"UDPAsync.listen"} /\ pc \in {"start", "opened", "run"} /\ ~cancelling
    /\ cancelling' = TRUE
    /\ done' = IF pc = "run" /\ call # "UDPAsync.listen" /\ ~IsDone(done)
               THEN CancelledFuture ELSE done
    /\ trace' = Append(trace, [ev |-> "cancel", pending |-> ~IsDone(done), set |-> FALSE])
    /\ UNCHANGED <<decoded, rvars, cvars, tvars, ovars, lvars, qvars, remote,
                   api, dest_addr, protocol, call, request, pc, sock, src_port,
                   replies, buffer, sent, rx, events, timedout, lost, eofReads,
                   outcome, response>>

\* cancellation delivered inside the endpoint factory: it closes the
\* transport (if any) and re-raises
CancelledInOpen ==
    /\ call \in Cooperative /\ pc \in {"start", "opened"} /\ cancelling
    /\ sock' = IF sock = "open" THEN "closed" ELSE sock
    /\ outcome' = Raise("CancelledError")
    /\ response' = IF api = "listen" THEN response
                 ELSE Dispatch(api, request, outcome')
    /\ decoded' = IF api = "listen" THEN decoded
                ELSE Records(api, request, outcome')
    /\ pc' = "done"
    /\ UNCHANGED <<rvars, cvars, tvars, ovars, lvars, qvars, remote,
                   api, dest_addr, protocol, call, request, src_port, done, replies,
                   buffer, sent, rx, events, timedout, cancelling, lost, eofReads, trace>>

\* variant: the request is sent again when the timer fires
Timeout_retransmits ==
    /\ call \in {"UDPAsync.send", "UDPAsync.broadcast", "TCPAsync.send"}
    /\ pc = "run" /\ ~IsDone(done)
    /\ done' = CancelledFuture
    /\ timedout' = TRUE
    /\ sent' = Append(sent, request)
    /\ trace' = Append(trace, [ev |-> "timeout", pending |-> ~IsDone(done), set |-> FALSE])
    /\ UNCHANGED <<decoded, rvars, cvars, tvars, ovars, lvars, qvars, remote,
                   api, dest_addr, protocol, call, request, pc, sock, src_port,
                   replies, buffer, rx, events, cancelling, lost, eofReads,
                   outcome, response>>

\* the wait_for timer fires while the future is pending: the future is cancelled
Timeout ==
    /\ call \in {"UDPAsync.send", "UDPAsync.broadcast", "TCPAsync.send"}
    /\ pc = "run" /\ ~IsDone(done)
    /\ done' = CancelledFuture
    /\ timedout' = TRUE
    /\ trace' = Append(trace, [ev |-> "timeout", pending |-> ~IsDone(done), set |-> FALSE])
    /\ UNCHANGED <<decoded, rvars, cvars, tvars, ovars, lvars, qvars, remote,
                   api, dest_addr, protocol, call, request, pc, sock, src_port,
                   replies, buffer, sent, rx, events, cancelling, lost, eofReads,
                   outcome, response>>

\* ------------------------------------------------ cooperative calls: I/O
Receiving == sock = "open" /\ pc \in {"opened", "run"} /\ Len(rx) < MaxRx

\* what the socket's own broadcast brings back: a socket bound to the port
\* it broadcasts to receives its own request, once
Loopback ==
    IF /\ ~remote.connected /\ src_port = BROADCAST_PORT
       /\ sent # <<>> /\ \A i \in 1..Len(rx) : rx[i] # request
    THEN {request} ELSE {}

UDPSend_DatagramReceived ==
    /\ call = "UDPAsync.send" /\ Receiving
    /\ \E packet \in Datagrams \cup Loopback :
         /\ rx' = Append(rx, packet)
         /\ done' = UDPSend_datagram_received(done, packet)
    /\ UNCHANGED <<decoded, rvars, cvars, tvars, ovars, lvars, qvars, remote,
                   api, dest_addr, protocol, call, request, pc, sock, src_port,
                   replies, buffer, sent, events, timedout, cancelling, lost,
                   eofReads, outcome, response, trace>>

Broadcast_DatagramReceived ==
    /\ call = "UDPAsync.broadcast" /\ Receiving
    /\ \E packet \in Datagrams :
         /\ rx' = Append(rx, packet)
         /\ replies' = Broadcast_datagram_received(replies, packet)
    /\ UNCHANGED <<decoded, rvars, cvars, tvars, ovars, lvars, qvars, remote,
                   api, dest_addr, protocol, call, request, pc, sock, src_port,
                   done, buffer, sent, events, timedout, cancelling, lost, eofReads,
                   outcome, response, trace>>

\* EventProtocol.datagram_received; on_event is the dispatcher's handler
Event_DatagramReceived ==
    /\ call = "UDPAsync.listen" /\ Receiving
    /\ \E data \in EventDatagrams :
         /\ rx' = Append(rx, data)
         /\ events' = Event_datagram_received(events, data)
         /\ IF events' # events
            THEN \E raises \in BOOLEAN :
                    /\ delivered' = Handler(delivered, printed, data, raises)[1]
                    /\ printed' = Handler(delivered, printed, data, raises)[2]
            ELSE UNCHANGED <<delivered, printed>>
    /\ UNCHANGED <<decoded, rvars, cvars, tvars, ovars, kwargs, closeSet, lpc, errors, qvars, remote,
                   api, dest_addr, protocol, call, request, pc, sock, src_port,
                   done, replies, buffer, sent, timedout, cancelling, lost, eofReads,
                   outcome, response, trace>>

TCPSend_DataReceived ==
    /\ call = "TCPAsync.send" /\ Receiving
    /\ \E tag \in StreamTags(rx), n \in ChunkLens :
         LET data == Chunk(tag, TotalLen(rx), n) IN
         /\ rx' = Append(rx, data)
         /\ buffer' = buffer \o data
         /\ done' = TCPSend_data_received(done, buffer')
    /\ UNCHANGED <<decoded, rvars, cvars, tvars, ovars, lvars, qvars, remote,
                   api, dest_addr, protocol, call, request, pc, sock, src_port,
                   replies, sent, events, timedout, cancelling, lost, eofReads,
                   outcome, response, trace>>

\* the peer closes the stream: eof_received returns None, so the transport
\* closes itself (connection_lost(None) follows)
TCPSend_EofReceived ==
    /\ call = "TCPAsync.send" /\ sock = "open" /\ pc \in {"opened", "run"}
    /\ done' = TCPSend_eof_received(done)
    /\ sock' = "closed"
    /\ trace' = Append(trace, [ev |-> "eof", pending |-> ~IsDone(done),
                                set |-> TCPSend_eof_received_sets(done)])
    /\ UNCHANGED <<decoded, rvars, cvars, tvars, ovars, lvars, qvars, remote,
                   api, dest_addr, protocol, call, request, pc, src_port, replies,
                   buffer, sent, rx, events, timedout, cancelling, lost, eofReads,
                   outcome, response>>

\* connection_lost(exc): with an error while the transport is open (fatal
\* socket error), with None once the transport has been closed
ConnectionLost ==
    /\ call \in Cooperative /\ src_port # 0 /\ ~lost
    /\ \E exc \in {"None", "OSError"} :
         /\ exc = "OSError" => sock = "open" /\ pc \in {"opened", "run"}
         /\ exc = "None" => sock = "closed"
         /\ done' = CASE call = "UDPAsync.send" -> UDPSend_connection_lost(done, exc)
                      [] call = "TCPAsync.send" -> TCPSend_connection_lost(done, exc)
                      [] OTHER -> done
    /\ lost' = TRUE
    /\ sock' = "closed"
    /\ \E exc \in {IF sock = "open" THEN "OSError" ELSE "None"} :
         trace' = Append(trace,
                     [ev |-> IF sock = "open" THEN "error" ELSE "lost",
                      pending |-> ~IsDone(done),
                      set |-> CASE call = "UDPAsync.send" ->
                                     UDPSend_connection_lost_sets(done, exc)
                                [] call = "TCPAsync.send" ->
                                     TCPSend_connection_lost_sets(done, exc)
                                [] OTHER -> FALSE])
    /\ UNCHANGED <<decoded, rvars, cvars, tvars, ovars, lvars, qvars, remote,
                   api, dest_addr, protocol, call, request, pc, src_port, replies,
                   buffer, sent, rx, events, timedout, cancelling, eofReads, outcome,
                   response>>

\* --------------------------------------------- cooperative calls: return
\* variant: the transport is left open
Close_leaks(s) == s

\* transport.close() in the finally clause of the transport method
Close(s) == "closed"

UDPSend_Resume ==
    /\ call = "UDPAsync.send" /\ pc = "run" /\ IsDone(done)
    /\ outcome' = UDPSend_run(done, cancelling)
    /\ response' = Dispatch(api, request, outcome')
    /\ decoded' = Records(api, request, outcome')
    /\ sock' = Close(sock)
    /\ pc' = "done"
    /\ UNCHANGED <<rvars, cvars, tvars, ovars, lvars, qvars, remote,
                   api, dest_addr, protocol, call, request, src_port, done, replies,
                   buffer, sent, rx, events, timedout, cancelling, lost, eofReads, trace>>

Broadcast_Resume ==
    /\ call = "UDPAsync.broadcast" /\ pc = "run" /\ IsDone(done)
    /\ outcome' = Broadcast_run(done, replies, cancelling)
    /\ response' = Dispatch(api, request, outcome')
    /\ decoded' = Records(api, request, outcome')
    /\ sock' = Close(sock)
    /\ pc' = "done"
    /\ UNCHANGED <<rvars, cvars, tvars, ovars, lvars, qvars, remote,
                   api, dest_addr, protocol, call, request, src_port, done, replies,
                   buffer, sent, rx, events, timedout, cancelling, lost, eofReads, trace>>

TCPSend_Resume ==
    /\ call = "TCPAsync.send" /\ pc = "run" /\ IsDone(done)
    /\ outcome' = TCPSend_run(done, cancelling)
    /\ response' = Dispatch(api, request, outcome')
    /\ decoded' = Records(api, request, outcome')
    /\ sock' = Close(sock)
    /\ pc' = "done"
    /\ UNCHANGED <<rvars, cvars, tvars, ovars, lvars, qvars, remote,
                   api, dest_addr, protocol, call, request, src_port, done, replies,
                   buffer, sent, rx, events, timedout, cancelling, lost, eofReads, trace>>

\* variant: the listener binds again after it was stopped
Listen_Resume_restarts ==
    /\ call = "UDPAsync.listen" /\ pc = "run" /\ cancelling
    /\ sock' = "none"
    /\ pc' = "start"
    /\ cancelling' = FALSE
    /\ UNCHANGED <<decoded, rvars, cvars, tvars, ovars, lvars, qvars, remote,
                   api, dest_addr, protocol, call, request, src_port, done, replies,
                   buffer, sent, rx, events, timedout, lost, eofReads, outcome,
                   response, trace>>

\* UDPAsync.listen: CancelledError ends the sleep, is swallowed, socket closed
Listen_Resume ==
    /\ call = "UDPAsync.listen" /\ pc = "run" /\ cancelling
    /\ outcome' = ReturnNone
    /\ sock' = Close(sock)
    /\ pc' = "done"
    /\ UNCHANGED <<decoded, rvars, cvars, tvars, ovars, lvars, qvars, remote,
                   api, dest_addr, protocol, call, request, src_port, done, replies,
                   buffer, sent, rx, events, timedout, cancelling, lost, eofReads,
                   response, trace>>

\* ---------------------------------------------------- UhppoteAsync.listen
\* listen(self, on_event): a call with keyword arguments the signature does
\* not declare raises TypeError; otherwise UDPAsync.listen(handler) is
\* started as a task and the calling task sleeps
Listen_Call ==
    /\ api = "listen" /\ lpc = "start"
    /\ IF kwargs
       THEN /\ lpc' = "done"
            /\ response' = [kind |-> "raise", exc |-> "TypeError", value |-> ""]
       ELSE /\ lpc' = "sleep"
            /\ response' = response
    /\ UNCHANGED <<decoded, rvars, cvars, tvars, ovars, kwargs, closeSet, delivered, printed, errors, qvars, remote,
                   api, dest_addr, protocol, call, request, pc, sock, src_port,
                   done, replies, buffer, sent, rx, events, timedout, cancelling,
                   lost, eofReads, outcome, trace>>

\* the caller sets the close event it passed to listen
SetClose ==
    /\ api = "listen" /\ kwargs /\ ~closeSet
    /\ closeSet' = TRUE
    /\ UNCHANGED <<decoded, rvars, cvars, tvars, ovars, kwargs, lpc, delivered, printed, errors, qvars, remote,
                   api, dest_addr, protocol, call, request, pc, sock, src_port,
                   done, replies, buffer, sent, rx, events, timedout, cancelling,
                   lost, eofReads, outcome, response, trace>>

\* the caller cancels the task that sleeps in listen
Listen_Cancel ==
    /\ api = "listen" /\ lpc = "sleep"
    /\ lpc' = "cancelled"
    /\ UNCHANGED <<decoded, rvars, cvars, tvars, ovars, kwargs, closeSet, delivered, printed, errors, qvars, remote,
                   api, dest_addr, protocol, call, request, pc, sock, src_port,
                   done, replies, buffer, sent, rx, events, timedout, cancelling,
                   lost, eofReads, outcome, response, trace>>

\* CancelledError ends the sleep and is swallowed; finally: task.cancel(),
\* then the listener's task is awaited
Listen_Stop ==
    /\ api = "listen" /\ lpc = "cancelled"
    /\ cancelling' = (pc # "done")
    /\ lpc' = "stopping"
    /\ UNCHANGED <<decoded, rvars, cvars, tvars, ovars, kwargs, closeSet, delivered, printed, errors, qvars, remote,
                   api, dest_addr, protocol, call, request, pc, sock, src_port,
                   done, replies, buffer, sent, rx, events, timedout, lost,
                   eofReads, outcome, response, trace>>

\* what `with suppress(CancelledError): await task` followed by
\* `return None` makes of the listener task's outcome
Listen_await(out) ==
    IF out.kind = "raise" /\ out.exc # "CancelledError"
    THEN [kind |-> "raise", exc |-> out.exc, value |-> ""]
    ELSE [kind |-> "return", exc |-> "", value |-> "None"]

\* the listener's task has finished: listen returns, or raises what it raised
Listen_Return ==
    /\ api = "listen" /\ lpc = "stopping" /\ pc = "done"
    /\ response' = Listen_await(outcome)
    /\ lpc' = "done"
    /\ UNCHANGED <<decoded, rvars, cvars, tvars, ovars, kwargs, closeSet, delivered, printed, errors, qvars, remote,
                   api, dest_addr, protocol, call, request, pc, sock, src_port,
                   done, replies, buffer, sent, rx, events, timedout, cancelling,
                   lost, eofReads, outcome, trace>>

\* ------------------------------------------------------ blocking TCP.send
\* what _read does with one recv result: return it, or loop
Read_accepts(reply) == Len(reply) = FrameLen

\* socket, connect, sendall; set-ip returns None without reading
TCP_Connect ==
    /\ call = "TCP.send" /\ pc = "start"
    /\ \E port \in SrcPorts : src_port' = port
    /\ remote' = TCP_endpoint(dest_addr)
    /\ sent' = Append(sent, request)
    /\ IF Byte(request, 1) = SET_IP
       THEN /\ outcome' = ReturnNone
            /\ sock' = "closed"
            /\ pc' = "done"
       ELSE /\ outcome' = outcome
            /\ sock' = "open"
            /\ pc' = "read"
    /\ UNCHANGED <<decoded, rvars, cvars, tvars, ovars, lvars, qvars,
                   api, dest_addr, protocol, call, request, done, replies, buffer,
                   rx, events, timedout, cancelling, lost, eofReads, response, trace>>

TCP_ConnectFails ==
    /\ call = "TCP.send" /\ pc = "start"
    /\ outcome' = Raise("OSError")
    /\ sock' = "closed"
    /\ pc' = "done"
    /\ UNCHANGED <<decoded, rvars, cvars, tvars, ovars, lvars, qvars, remote,
                   api, dest_addr, protocol, call, request, src_port, done, replies,
                   buffer, sent, rx, events, timedout, cancelling, lost, eofReads,
                   response, trace>>

\* one pass of the loop in _read on the bytes recv returned
Read_step(reply) ==
    IF Read_accepts(reply)
    THEN /\ outcome' = Return(reply)
         /\ sock' = "closed"
         /\ pc' = "done"
    ELSE UNCHANGED <<outcome, sock, pc>>

\* recv returns some bytes of the peer's stream
TCP_Recv ==
    /\ call = "TCP.send" /\ pc = "read" /\ eofReads = 0 /\ Len(rx) < MaxRx
    /\ \E tag \in StreamTags(rx), n \in ChunkLens :
         LET reply == Chunk(tag, TotalLen(rx), n) IN
         /\ rx' = Append(rx, reply)
         /\ Read_step(reply)
    /\ recv_start' = clock
    /\ UNCHANGED <<decoded, rvars, cvars, clock, ovars, lvars, qvars, remote,
                   api, dest_addr, protocol, call, request, src_port, done, replies,
                   buffer, sent, events, timedout, cancelling, lost, eofReads,
                   response, trace>>

\* the peer has closed: recv returns b'' at once, every time it is called
TCP_RecvEof ==
    /\ call = "TCP.send" /\ pc = "read" /\ eofReads < MaxRx
    /\ eofReads' = eofReads + 1
    /\ Read_step(<<>>)
    /\ recv_start' = clock
    /\ UNCHANGED <<decoded, rvars, cvars, clock, ovars, lvars, qvars, remote,
                   api, dest_addr, protocol, call, request, src_port, done, replies,
                   buffer, sent, rx, events, timedout, cancelling, lost, response, trace>>

\* the socket timeout of the recv call in progress has expired
RecvExpired == clock - recv_start >= TimeLimit

\* time passes while recv waits for bytes: sock.settimeout(time_limit) is
\* the limit of each recv call, counted from the moment it is made
TCP_Tick ==
    /\ call = "TCP.send" /\ pc = "read" /\ clock < MaxClock
    /\ eofReads = 0 => ~RecvExpired
    /\ clock' = clock + 1
    /\ recv_start' = IF eofReads = 0 THEN recv_start ELSE clock + 1
    /\ UNCHANGED <<decoded, rvars, cvars, ovars, lvars, qvars, remote,
                   api, dest_addr, protocol, call, request, src_port, done, replies,
                   buffer, sent, rx, events, timedout, cancelling, lost, eofReads,
                   response, trace, outcome, sock, pc>>

\* recv raises: socket timeout, or connection reset by the peer
TCP_RecvRaises ==
    /\ call = "TCP.send" /\ pc = "read" /\ eofReads = 0
    /\ \E exc \in {"TimeoutError", "ConnectionResetError"} :
         /\ exc = "TimeoutError" => RecvExpired
         /\ outcome' = Raise(exc)
         /\ timedout' = (exc = "TimeoutError")
    /\ sock' = "closed"
    /\ pc' = "done"
    /\ UNCHANGED <<decoded, rvars, cvars, tvars, ovars, lvars, qvars, remote,
                   api, dest_addr, protocol, call, request, src_port, done, replies,
                   buffer, sent, rx, events, cancelling, lost, eofReads, response, trace>>

Next ==
    \/ UDPSend_Open
    \/ Broadcast_Open
    \/ Listen_Open
    \/ TCPSend_Open
    \/ OpenFails
    \/ Await
    \/ Cancel
    \/ CancelledInOpen
    \/ Timeout
    \/ UDPSend_DatagramReceived
    \/ Broadcast_DatagramReceived
    \/ Event_DatagramReceived
    \/ TCPSend_DataReceived
    \/ TCPSend_EofReceived
    \/ ConnectionLost
    \/ UDPSend_Resume
    \/ Broadcast_Resume
    \/ TCPSend_Resume
    \/ Listen_Resume
    \/ Listen_Call
    \/ SetClose
    \/ Listen_Cancel
    \/ Listen_Stop
    \/ Listen_Return
    \/ TCP_Connect
    \/ TCP_ConnectFails
    \/ TCP_Recv
    \/ TCP_RecvEof
    \/ TCP_Tick
    \/ TCP_RecvRaises

Spec == Init /\ [][Next]_vars

\* the steps the event loop runs whenever they are ready: task start-up,
\* resumption after a future completed or a cancellation, the timer
Progress ==
    \/ UDPSend_Open \/ Broadcast_Open \/ Listen_Open \/ TCPSend_Open \/ OpenFails
    \/ Await \/ CancelledInOpen \/ Timeout
    \/ UDPSend_Resume \/ Broadcast_Resume \/ TCPSend_Resume \/ Listen_Resume
    \/ Listen_Call \/ Listen_Stop \/ Listen_Return

\* Spec with the event loop's scheduling: a ready step is eventually run
FairSpec == Spec /\ WF_vars(Progress)

\* ============================================== queued event consumers
\* The event-listener examples: on_event, called by the listener for every
\* event, feeds a work queue that process_events drains. Events are named by
\* their event index, 1, 2, ... in arrival order.
Consumers == {"blocking", "on_event", "on_event_async"}

\* variant: the queue is allowed one event more
Admits_one_more(qsize) == qsize <= QUEUE_SIZE

\* `if q.qsize() < QUEUE_SIZE`
Admits(qsize) == qsize < QUEUE_SIZE

QUnchanged ==
    UNCHANGED <<decoded, rvars, cvars, tvars, ovars, lvars, remote, api, dest_addr, protocol, call, request, pc, sock,
                src_port, done, replies, buffer, sent, rx, events, timedout,
                cancelling, lost, eofReads, outcome, response, trace>>

\* examples/event-listener: the listener thread calls on_event(event, q),
\* which tests q.qsize() and then either puts the event or warns
Blocking_on_event ==
    /\ consumer = "blocking" /\ tasks = <<>> /\ arrived < MaxEvents
    /\ LET event == arrived + 1 IN
         /\ arrived' = event
         /\ IF Admits(Len(q))
            THEN tasks' = <<event>> /\ warned' = warned
            ELSE tasks' = tasks /\ warned' = Append(warned, event)
    /\ UNCHANGED <<consumer, q, taken, processed>>
    /\ QUnchanged

\* ... q.put(event), on the listener thread
Blocking_put ==
    /\ consumer = "blocking" /\ tasks # <<>>
    /\ q' = Append(q, Head(tasks))
    /\ tasks' = Tail(tasks)
    /\ UNCHANGED <<consumer, arrived, taken, processed, warned>>
    /\ QUnchanged

\* examples/async/event-listener, on_event: tests q.qsize() and either
\* creates a task for q.put(event) or warns
Coop_on_event ==
    /\ consumer = "on_event" /\ arrived < MaxEvents
    /\ LET event == arrived + 1 IN
         /\ arrived' = event
         /\ IF Admits(Len(q))
            THEN tasks' = Append(tasks, event) /\ warned' = warned
            ELSE tasks' = tasks /\ warned' = Append(warned, event)
    /\ UNCHANGED <<consumer, q, taken, processed>>
    /\ QUnchanged

\* the task created by on_event runs: q.put(event) on the unbounded queue
Coop_put ==
    /\ consumer = "on_event" /\ tasks # <<>>
    /\ q' = Append(q, Head(tasks))
    /\ tasks' = Tail(tasks)
    /\ UNCHANGED <<consumer, arrived, taken, processed, warned>>
    /\ QUnchanged

\* on_event_async(event, q) is called: the listener's handler schedules the
\* coroutine as a task
Coop_on_event_async ==
    /\ consumer = "on_event_async" /\ arrived < MaxEvents
    /\ LET event == arrived + 1 IN
         /\ arrived' = event
         /\ tasks' = Append(tasks, event)
    /\ UNCHANGED <<consumer, q, taken, processed, warned>>
    /\ QUnchanged

\* the on_event_async task runs: it tests q.qsize() and puts or warns in
\* one step (put on an unbounded queue does not suspend)
Coop_on_event_async_run ==
    /\ consumer = "on_event_async" /\ tasks # <<>>
    /\ IF Admits(Len(q))
       THEN q' = Append(q, Head(tasks)) /\ warned' = warned
       ELSE q' = q /\ warned' = Append(warned, Head(tasks))
    /\ tasks' = Tail(tasks)
    /\ UNCHANGED <<consumer, arrived, taken, processed>>
    /\ QUnchanged

\* process_events: event = q.get()
process_events ==
    /\ consumer \in Consumers /\ taken = 0 /\ q # <<>>
    /\ taken' = Head(q)
    /\ q' = Tail(q)
    /\ UNCHANGED <<consumer, tasks, arrived, processed, warned>>
    /\ QUnchanged

\* process_event(event) completes
process_event ==
    /\ consumer \in Consumers /\ taken # 0
    /\ processed' = Append(processed, taken)
    /\ taken' = 0
    /\ UNCHANGED <<consumer, q, tasks, arrived, warned>>
    /\ QUnchanged

\* the listener is running and no event has arrived yet
QInit ==
    /\ consumer \in Consumers
    /\ q = <<>> /\ tasks = <<>> /\ arrived = 0 /\ taken = 0
    /\ processed = <<>> /\ warned = <<>>
    /\ api = "listen" /\ dest_addr = "None" /\ protocol = "udp"
    /\ call = "UDPAsync.listen" /\ request = Request(GET_CONTROLLER)
    /\ pc = "run" /\ sock = "open" /\ src_port = LISTEN_PORT
    /\ done = Pending /\ replies = <<>> /\ buffer = <<>> /\ sent = <<>>
    /\ rx = <<>> /\ events = <<>> /\ timedout = FALSE /\ cancelling = FALSE
    /\ lost = FALSE /\ eofReads = 0 /\ outcome = NoOutcome
    /\ response = NoResponse /\ trace = <<>> /\ remote = NoRemote
    /\ kwargs = FALSE /\ closeSet = FALSE /\ lpc = "sleep"
    /\ delivered = <<>> /\ printed = <<>> /\ errors = <<>>
    /\ decoded = <<>> /\ rop = "none" /\ rargs = NoArgs /\ rreply = NoReply
    /\ rresult = NoResult /\ calls = <<>> /\ wire = NoDeliveries
    /\ clock = 0 /\ recv_start = 0
    /\ twin = NoTwin /\ self = UDPAsync_init(DefaultArgs)

QNext ==
    \/ Blocking_on_event
    \/ Blocking_put
    \/ Coop_on_event
    \/ Coop_put
    \/ Coop_on_event_async
    \/ Coop_on_event_async_run
    \/ process_events
    \/ process_event

\* the listener thread, the tasks and the processing loop keep running;
\* events arrive whenever they arrive
QSpec ==
    /\ QInit /\ [][QNext]_vars
    /\ WF_vars(Blocking_put) /\ WF_vars(Coop_put) /\ WF_vars(Coop_on_event_async_run)
    /\ WF_vars(process_events) /\ WF_vars(process_event)

\* ------------------------------------ record-level functions: the call
\* no call of the transports is in progress
Idle ==
    /\ api = "get_controller" /\ dest_addr = "None" /\ protocol = "udp"
    /\ call = "UDPAsync.send" /\ request = Request(GET_CONTROLLER)
    /\ pc = "done" /\ sock = "closed" /\ src_port = 0
    /\ done = Pending /\ replies = <<>> /\ buffer = <<>> /\ sent = <<>>
    /\ rx = <<>> /\ events = <<>> /\ timedout = FALSE /\ cancelling = FALSE
    /\ lost = FALSE /\ eofReads = 0 /\ outcome = NoOutcome
    /\ response = NoResponse /\ trace = <<>> /\ remote = NoRemote
    /\ kwargs = FALSE /\ closeSet = FALSE /\ lpc = "none"
    /\ delivered = <<>> /\ printed = <<>> /\ errors = <<>>
    /\ consumer = "none" /\ q = <<>> /\ tasks = <<>> /\ arrived = 0
    /\ taken = 0 /\ processed = <<>> /\ warned = <<>>
    /\ decoded = <<>>

\* a record-level function has been called and the transport has returned
\* a reply to it
RInit ==
    /\ Idle
    /\ rop \in RecordOps
    /\ rargs \in [controller : {CONTROLLER, CONTROLLER_OTHER},
                  card : {CARD, CARD_OTHER},
                  index : {EVENT_INDEX, EVENT_INDEX_OVERWRITTEN},
                  profile : {TIME_PROFILE, TIME_PROFILE_NOT_FOUND}]
    /\ rreply \in [controller : {CONTROLLER, CONTROLLER_OTHER},
                   card_number : {NOT_FOUND, DELETED, CARD, CARD_OTHER},
                   index : {0, EVENT_INDEX, EVENT_INDEX_OVERWRITTEN},
                   event_type : {1, EVENT_OVERWRITTEN},
                   profile : {0, TIME_PROFILE}]
    /\ rresult = NoResult
    /\ calls = <<>>
    /\ wire = NoDeliveries
    /\ clock = 0
    /\ recv_start = 0
    /\ twin = NoTwin
    /\ self = UDPAsync_init(DefaultArgs)

\* the function validates the reply and returns or raises
Record_Return ==
    /\ rresult = NoResult
    /\ rresult' = RecordResult(rop, rargs, rreply)
    /\ UNCHANGED <<decoded, rop, rargs, rreply, cvars, tvars, ovars, lvars, qvars, remote,
                   api, dest_addr, protocol, call, request, pc, sock, src_port,
                   done, replies, buffer, sent, rx, events, timedout, cancelling,
                   lost, eofReads, outcome, response, trace>>

RNext == Record_Return

RSpec == RInit /\ [][RNext]_vars

\* ============================= concurrent calls on one transport object
\* Several tasks call send of the same UDPAsync or TCPAsync object. The
\* object holds its configuration only; each call creates its endpoint, with
\* a protocol object of its own, on a port the OS assigns (bind port 0).
NCalls == 2          \* calls in flight on the shared object
MaxDeliveries == 2   \* datagrams and stream chunks delivered, over all calls

Calls == 1..NCalls
Ports == {BROADCAST_PORT + c : c \in Calls}

NoCall(t) ==
    [transport |-> t, pc |-> "start", sock |-> "none", port |-> 0,
     done |-> Pending, buffer |-> <<>>, rx |-> <<>>, sent |-> <<>>,
     outcome |-> NoOutcome, bind |-> "none"]

\* the reply to the request of call c, in full
Reply(c, k) ==
    IF k.transport = "udp" THEN Packet(c, FrameLen) ELSE Chunk(c, 0, FrameLen)

\* what the peer of call c sends to the port the request came from: the
\* reply to that request or a short datagram, or the next chunk of the
\* reply stream
Arrivals(c, k) ==
    IF k.transport = "udp"
    THEN {Packet(c, FrameLen), Packet(c, FrameLen - 1)}
    ELSE {Chunk(c, Len(k.buffer), n) : n \in {FrameLen - 24, FrameLen}}

OpenPorts == {calls[c].port : c \in {d \in Calls : calls[d].sock = "open"}}

\* variant: the calls of one object share one protocol object
Receivers_shared(port) == {c \in Calls : calls[c].sock = "open"}

\* the protocol objects a delivery to the port reaches: the one of the
\* endpoint bound to it
Receivers(port) == {c \in Calls : calls[c].sock = "open" /\ calls[c].port = port}

\* variant: the method keeps the protocol object of the call on the
\* transport object
Send_self_keeps_protocol(obj, c) == [obj EXCEPT !.percall = Append(@, c)]

\* what send does to the object it is called on: request, transport and
\* protocol are locals of the call, the attributes are only read
Send_self(obj, c) == obj

\* the call's endpoint is created, bound to the object's bind address, and
\* connection_made sends the request
Call_Open(c) ==
    /\ calls[c].pc = "start"
    /\ \E port \in Ports \ OpenPorts :
         calls' = [calls EXCEPT ![c].pc = "run", ![c].sock = "open",
                               ![c].port = port,
                               ![c].bind = self.bind[1],
                               ![c].sent = Append(@, Request(GET_CONTROLLER)),
                               ![c].done =
                                  IF calls[c].transport = "udp"
                                  THEN UDPSend_connection_made(@, Request(GET_CONTROLLER))
                                  ELSE TCPSend_connection_made(@, Request(GET_CONTROLLER))]
    /\ self' = Send_self(self, c)
    /\ wire' = wire

\* what a protocol object does with the data its endpoint received
Call_received(k, data) ==
    IF k.transport = "udp"
    THEN [k EXCEPT !.rx = Append(@, data),
                   !.done = UDPSend_datagram_received(@, data)]
    ELSE [k EXCEPT !.rx = Append(@, data),
                   !.buffer = @ \o data,
                   !.done = TCPSend_data_received(@, k.buffer \o data)]

\* a datagram, or a chunk of the peer's stream, arrives for an open socket
Net_Deliver ==
    /\ wire.n < MaxDeliveries
    /\ \E c \in Calls :
         /\ calls[c].sock = "open"
         /\ \E data \in Arrivals(c, calls[c]) :
              /\ calls' = [d \in Calls |->
                             IF d \in Receivers(calls[c].port)
                             THEN Call_received(calls[d], data) ELSE calls[d]]
              /\ wire' = [n |-> wire.n + 1,
                          seen |-> wire.seen \cup
                                     {[port |-> calls[c].port, data |-> data]}]
    /\ self' = self

\* the wait_for timer of the call fires
Call_Timeout(c) ==
    /\ calls[c].pc = "run" /\ ~IsDone(calls[c].done)
    /\ calls' = [calls EXCEPT ![c].done = CancelledFuture]
    /\ self' = self
    /\ wire' = wire

\* run returns to the call, which closes its transport and returns
Call_Resume(c) ==
    /\ calls[c].pc = "run" /\ IsDone(calls[c].done)
    /\ calls' = [calls EXCEPT ![c].pc = "done", ![c].sock = Close(@),
                               ![c].outcome =
                                  IF calls[c].transport = "udp"
                                  THEN UDPSend_run(calls[c].done, FALSE)
                                  ELSE TCPSend_run(calls[c].done, FALSE)]
    /\ self' = Send_self(self, c)
    /\ wire' = wire

CUnchanged ==
    UNCHANGED <<decoded, rvars, tvars, twin, lvars, qvars, remote,
                api, dest_addr, protocol, call, request, pc, sock, src_port,
                done, replies, buffer, sent, rx, events, timedout, cancelling,
                lost, eofReads, outcome, response, trace>>

\* the calls have been made and none has created its endpoint yet
CInit ==
    /\ Idle
    /\ rop = "none" /\ rargs = NoArgs /\ rreply = NoReply /\ rresult = NoResult
    /\ \E t \in {"udp", "tcp"} : calls = [c \in Calls |-> NoCall(t)]
    /\ wire = NoDeliveries
    /\ clock = 0 /\ recv_start = 0
    /\ twin = NoTwin
    /\ \E args \in ConstructorArgs : self = UDPAsync_init(args)

CNext ==
    \/ \E c \in Calls : Call_Open(c) /\ CUnchanged
    \/ Net_Deliver /\ CUnchanged
    \/ \E c \in Calls : Call_Timeout(c) /\ CUnchanged
    \/ \E c \in Calls : Call_Resume(c) /\ CUnchanged

CSpec == CInit /\ [][CNext]_vars

\* ====================================== TCP.send and TCPAsync.send as twins
\* The same get-controller request is sent with the blocking and with the
\* cooperative TCP transport to a peer that behaves the same way for both:
\* it delivers the chunks of its reply stream and then closes the
\* connection, resets it, or stays silent until the timeout. The state is
\* in twin: the peer's behaviour, how far it has got (i), what the blocking
\* call returned or raised (blocking), the cooperative protocol object
\* (buffer, done) and what the cooperative call returned or raised (coop).
Endings == {"close", "reset", "silence"}

\* _read on what one recv returned, while the call is still reading
Twin_read(out, reply) ==
    IF out = NoOutcome /\ Read_accepts(reply) THEN Return(reply) ELSE out

\* recv raises while the call is still reading
Twin_raise(out, exc) == IF out = NoOutcome THEN Raise(exc) ELSE out

\* the peer delivers its next chunk to both calls
Twin_Deliver ==
    /\ twin.ending # "none" /\ twin.i < Len(twin.chunks)
    /\ LET data == twin.chunks[twin.i + 1] IN
         twin' = [twin EXCEPT !.i = @ + 1,
                              !.blocking = Twin_read(@, data),
                              !.buffer = @ \o data,
                              !.done = TCPSend_data_received(@, twin.buffer \o data)]

\* after its chunks the peer closes the connection (recv returns b'';
\* eof_received, then connection_lost(None)), resets it (recv raises
\* ConnectionResetError; connection_lost(exc)) or stays silent (the socket
\* timeout expires; wait_for cancels the future)
Twin_End ==
    /\ twin.ending # "none" /\ twin.i = Len(twin.chunks) /\ ~twin.ended
    /\ twin' = [twin EXCEPT
                  !.ended = TRUE,
                  !.blocking =
                     CASE twin.ending = "close" -> Twin_read(@, <<>>)
                       [] twin.ending = "reset" -> Twin_raise(@, "ConnectionResetError")
                       [] twin.ending = "silence" -> Twin_raise(@, "TimeoutError"),
                  !.done =
                     CASE twin.ending = "close" ->
                            TCPSend_connection_lost(TCPSend_eof_received(@), "None")
                       [] twin.ending = "reset" -> TCPSend_connection_lost(@, "OSError")
                       [] twin.ending = "silence" ->
                            IF IsDone(@) THEN @ ELSE CancelledFuture]

\* the cooperative call resumes from run
Twin_Resume ==
    /\ twin.ending # "none" /\ IsDone(twin.done) /\ twin.coop = NoOutcome
    /\ twin' = [twin EXCEPT !.coop = TCPSend_run(twin.done, FALSE)]

TUnchanged ==
    UNCHANGED <<decoded, rvars, cvars, tvars, self, lvars, qvars, remote,
                api, dest_addr, protocol, call, request, pc, sock, src_port,
                done, replies, buffer, sent, rx, events, timedout, cancelling,
                lost, eofReads, outcome, response, trace>>

RECURSIVE PeerChunks(_, _, _)
\* the ways the peer can cut its stream into n chunks, from offset from
PeerChunks(tag, from, n) ==
    IF n = 0 THEN {<<>>}
    ELSE UNION {{<<Chunk(tag, from, len)>> \o rest :
                    rest \in PeerChunks(tag, from + len, n - 1)} : len \in ChunkLens}

\* both calls have connected and sent the request
TInit ==
    /\ Idle
    /\ rop = "none" /\ rargs = NoArgs /\ rreply = NoReply /\ rresult = NoResult
    /\ calls = <<>> /\ wire = NoDeliveries
    /\ clock = 0 /\ recv_start = 0
    /\ self = UDPAsync_init(DefaultArgs)
    /\ \E tag \in 1..NTags, n \in 0..MaxRx, ending \in Endings :
         \E chunks \in PeerChunks(tag, 0, n) :
            twin = [tag |-> tag, chunks |-> chunks, ending |-> ending, i |-> 0,
                    ended |-> FALSE, blocking |-> NoOutcome, buffer |-> <<>>,
                    done |-> Pending, coop |-> NoOutcome]

TNext ==
    \/ Twin_Deliver /\ TUnchanged
    \/ Twin_End /\ TUnchanged
    \/ Twin_Resume /\ TUnchanged

TSpec == TInit /\ [][TNext]_vars

\* ================================================================ claims
Has64(s) == \E i \in 1..Len(s) : Is64(s[i])

First64(s) ==
    s[CHOOSE i \in 1..Len(s) : Is64(s[i]) /\ \A j \in 1..(i - 1) : ~Is64(s[j])]

Only64(s) == SelectSeq(s, Is64)

NotSetIP == Byte(request, 1) # SET_IP

\* some event of the given kind happened while the future was still pending
Happened(ev) == \E i \in 1..Len(trace) : trace[i].ev = ev /\ trace[i].pending

\* the future was pending at none of the recorded events
Undisturbed == \A i \in 1..Len(trace) : ~trace[i].pending

\* C1: a UDP send of a request other than set-ip returns the first 64 byte
\* datagram received on its socket; a 64 byte datagram that arrives after it
\* never replaces the frame and raises no error.
C1_FirstDatagramWins ==
    (call = "UDPAsync.send" /\ NotSetIP) =>
        /\ done.state = "result" => Has64(rx) /\ done.value = <<First64(rx)>>
        /\ outcome.kind = "return" => Has64(rx) /\ outcome.value = <<First64(rx)>>
        /\ (pc = "done" /\ done.state = "result" /\ ~cancelling) => outcome.kind = "return"

C1_Witness ==
    /\ call = "UDPAsync.send" /\ NotSetIP /\ pc = "done" /\ outcome.kind = "return"
    /\ \E i, j \in 1..Len(rx) :
         /\ i < j /\ Is64(rx[i]) /\ Is64(rx[j]) /\ rx[i] # rx[j]
         /\ outcome.value = <<rx[i]>>

\* C2: on every UDP path a datagram whose length is not 64 is discarded: it
\* is never returned or delivered, raises nothing, and leaves the operation
\* waiting exactly as it was.
C2_Only64 ==
    call \in {"UDPAsync.send", "UDPAsync.broadcast", "UDPAsync.listen"} =>
        /\ \A i \in 1..Len(replies) : Is64(replies[i])
        /\ \A i \in 1..Len(events) : Is64(events[i])
        /\ \A i \in 1..Len(done.value) : Is64(done.value[i])
        /\ \A i \in 1..Len(outcome.value) : Is64(outcome.value[i])

C2_ShortDatagram ==
    /\ call \in {"UDPAsync.send", "UDPAsync.broadcast", "UDPAsync.listen"}
    /\ Len(rx') = Len(rx) + 1
    /\ ~Is64(rx'[Len(rx')])

C2_Discarded ==
    /\ []C2_Only64
    /\ [][C2_ShortDatagram =>
            UNCHANGED <<done, replies, events, pc, sock, outcome, response,
                        timedout, cancelling, sent>>]_vars

C2_Witness ==
    /\ call = "UDPAsync.listen" /\ Len(rx) = 2
    /\ ~Is64(rx[1]) /\ Is64(rx[2]) /\ events = <<rx[2]>>

\* C3: for a request other than set-ip, a cooperative UDP or TCP send whose
\* timeout expires before a complete 64 byte reply has been received fails
\* with a timeout error and never returns a reply that arrives later; a
\* reply that is complete before the deadline is returned.
ReplyComplete ==
    IF call = "TCPAsync.send" THEN TotalLen(rx) >= FrameLen ELSE Has64(rx)

FirstFrame ==
    IF call = "TCPAsync.send" THEN SubSeq(Concat(rx), 1, FrameLen) ELSE First64(rx)

C3_Timeout ==
    (call \in {"UDPAsync.send", "TCPAsync.send"} /\ NotSetIP) =>
        /\ (timedout /\ pc = "done" /\ ~cancelling) => outcome = Raise("TimeoutError")
        /\ timedout => outcome.kind # "return"
        /\ (ReplyComplete /\ Undisturbed) => done.state = "result"
        /\ (pc = "done" /\ done.state = "result" /\ ~cancelling)
              => outcome = Return(FirstFrame)

C3_Witness ==
    /\ call = "TCPAsync.send" /\ NotSetIP /\ pc = "done"
    /\ outcome = Raise("TimeoutError")
    /\ ReplyComplete
    /\ trace[1].ev = "timeout"

\* C4: set_ip transmits exactly one request frame and completes without
\* waiting for a reply: the transport returns None and the dispatcher
\* returns True, over broadcast UDP, addressed UDP and TCP.
C4_SetIP ==
    (call \in {"UDPAsync.send", "TCPAsync.send", "TCP.send"} /\ ~NotSetIP) =>
        /\ Len(sent) <= 1
        /\ ~timedout
        /\ pc # "read"
        /\ src_port # 0 => sent = <<request>>
        /\ (src_port # 0 /\ call # "TCP.send") => done = ResultNone
        /\ (pc = "done" /\ src_port # 0 /\ ~cancelling) =>
              /\ outcome = ReturnNone
              /\ api = "set_ip" => response.kind = "return" /\ response.value = "True"

C4_Witness ==
    /\ api = "set_ip" /\ call = "UDPAsync.send" /\ dest_addr = "None"
    /\ pc = "done" /\ response.value = "True" /\ outcome = ReturnNone
    /\ Has64(rx)

\* C5: UDPAsync.broadcast returns exactly the 64 byte datagrams received by
\* the call, in the order received, each once; the list is empty when none
\* arrived.
C5_BroadcastReplies ==
    call = "UDPAsync.broadcast" =>
        /\ outcome.kind = "return" => outcome.value = Only64(rx)
        /\ (pc = "done" /\ ~cancelling /\ src_port \notin {0, BROADCAST_PORT})
              => outcome.kind = "return"

C5_Witness ==
    /\ call = "UDPAsync.broadcast" /\ pc = "done" /\ outcome.kind = "return"
    /\ Len(rx) = 3 /\ Len(outcome.value) = 2
    /\ outcome.value[1] # outcome.value[2]
    /\ ~Is64(rx[2])

\* C6: when the bound source port equals the broadcast destination port the
\* broadcast fails with a configuration error and the request is never
\* transmitted; with any other bound port it is transmitted exactly once.
C6_SelfBroadcastGuard ==
    (call = "UDPAsync.broadcast" /\ src_port # 0) =>
        IF src_port = BROADCAST_PORT
        THEN /\ sent = <<>>
             /\ (pc = "done" /\ ~cancelling) => outcome = Raise("RuntimeError")
        ELSE sent = <<request>>

C6_Witness ==
    /\ call = "UDPAsync.broadcast" /\ src_port = BROADCAST_PORT
    /\ pc = "done" /\ outcome = Raise("RuntimeError") /\ sent = <<>>

\* C7: in the cooperative TCP send, the peer closing before 64 bytes were
\* received fails the call with an EOF error, a connection lost with an
\* error fails it with a connection-reset error, neither is reported as a
\* timeout; once 64 bytes are held, a later EOF or loss does not change the
\* returned frame.
C7_EofAndReset ==
    (call = "TCPAsync.send" /\ NotSetIP) =>
        /\ (pc = "done" /\ ~cancelling /\ Happened("eof")) => outcome = Raise("EOFError")
        /\ (pc = "done" /\ ~cancelling /\ Happened("error"))
              => outcome = Raise("ConnectionResetError")
        /\ done.state = "result" => done.value = <<SubSeq(Concat(rx), 1, FrameLen)>>
        /\ (pc = "done" /\ ~cancelling /\ done.state = "result")
              => outcome = Return(SubSeq(Concat(rx), 1, FrameLen))

C7_Witness ==
    /\ call = "TCPAsync.send" /\ NotSetIP /\ pc = "done"
    /\ outcome = Raise("EOFError")
    /\ 0 < TotalLen(rx) /\ TotalLen(rx) < FrameLen

\* C8: in the blocking TCP send, the peer closing the connection before a
\* 64 byte reply was received ends the call with an error other than a
\* timeout; the call does not read from the closed connection again.
C8_ClosedConnectionEndsRead ==
    (call = "TCP.send" /\ eofReads > 0) =>
        /\ eofReads = 1
        /\ pc = "done"
        /\ outcome.kind = "raise" /\ outcome.exc # "TimeoutError"

\* C9: every socket opened by a transport operation is closed by the time
\* the operation finishes, on every exit path.
C9_SocketClosed == pc = "done" => sock # "open"

C9_Witness ==
    /\ pc = "done" /\ sock = "closed" /\ src_port # 0
    /\ outcome = Raise("TimeoutError") /\ call = "UDPAsync.send"

\* C10: cancelling a task that awaits UDPAsync.send, UDPAsync.broadcast or
\* TCPAsync.send closes the call's socket and the caller observes
\* cancellation, never a timeout, connection or domain error.
C10_Cancellation ==
    (call \in {"UDPAsync.send", "UDPAsync.broadcast", "TCPAsync.send"}
       /\ cancelling /\ pc = "done") =>
        /\ sock # "open"
        /\ outcome = Raise("CancelledError")
        /\ response = [kind |-> "raise", exc |-> "CancelledError", value |-> ""]

C10_Witness ==
    /\ call = "UDPAsync.send" /\ cancelling /\ pc = "done"
    /\ sock = "closed" /\ done.state = "cancelled" /\ ~timedout
    /\ outcome = Raise("CancelledError")

\* C11: the dispatcher sends a request over TCP exactly when the protocol is
\* tcp and a destination address is given; in every other case over UDP: on
\* a socket connected to the address when one is given, on an unconnected
\* socket that sends to the broadcast address when the address is null.
C11_Routing ==
    api \in {"get_controller", "set_ip"} =>
        /\ call = "TCPAsync.send" <=> (protocol = "tcp" /\ dest_addr # "None")
        /\ call # "TCPAsync.send" => call = "UDPAsync.send"
        /\ src_port # 0 =>
             /\ sent = <<request>>
             /\ remote = IF dest_addr = "None"
                         THEN [addr |-> BROADCAST_ADDR, connected |-> FALSE]
                         ELSE [addr |-> dest_addr, connected |-> TRUE]

C11_Witness ==
    /\ api = "get_controller" /\ protocol = "udp" /\ dest_addr # "None"
    /\ call = "UDPAsync.send" /\ sent = <<request>>
    /\ remote = [addr |-> dest_addr, connected |-> TRUE]
    /\ response.kind = "return"

\* C12 (as stated): a controller reference with protocol tcp and no
\* destination address is invalid: the call fails and the request is not
\* sent over any transport.
C12_TcpNeedsAddress ==
    (api \in {"get_controller", "set_ip"} /\ protocol = "tcp" /\ dest_addr = "None") =>
        /\ sent = <<>>
        /\ pc = "done" => response.kind = "raise"

\* C12 (amended): a controller reference with protocol tcp and no
\* destination address is not rejected: the request is sent once over UDP to
\* the broadcast address, and the call ends as that UDP send ends (the first
\* 64 byte reply is returned to the dispatcher function, which decodes it).
C12_TcpWithoutAddress ==
    (api \in {"get_controller", "set_ip"} /\ protocol = "tcp" /\ dest_addr = "None") =>
        /\ call = "UDPAsync.send"
        /\ src_port # 0 =>
             /\ sent = <<request>>
             /\ remote = [addr |-> BROADCAST_ADDR, connected |-> FALSE]
        /\ (pc = "done" /\ Has64(rx) /\ Undisturbed /\ ~cancelling) =>
             /\ outcome.kind = "return"
             /\ response.kind = "return" \/ response.exc = "InvalidResponse"

C12_Witness ==
    /\ api = "get_controller" /\ protocol = "tcp" /\ dest_addr = "None"
    /\ sent = <<request>> /\ remote.addr = BROADCAST_ADDR
    /\ pc = "done" /\ Has64(rx) /\ outcome = Return(First64(rx))
    /\ response.kind = "return"

\* the events of the valid 64 byte event frames of s, in order
RECURSIVE DecodedEvents(_)
DecodedEvents(s) ==
    IF s = <<>> THEN <<>>
    ELSE IF Is64(Head(s)) /\ DecodeOk(Head(s))
    THEN <<Event(Head(s))>> \o DecodedEvents(Tail(s))
    ELSE DecodedEvents(Tail(s))

\* the decode errors of the 64 byte frames of s that fail to decode
RECURSIVE DecodeErrors(_)
DecodeErrors(s) ==
    IF s = <<>> THEN <<>>
    ELSE IF Is64(Head(s)) /\ ~DecodeOk(Head(s))
    THEN <<DecodeError(Head(s))>> \o DecodeErrors(Tail(s))
    ELSE DecodeErrors(Tail(s))

BadFrame(p) == Is64(p) /\ ~DecodeOk(p)

\* C13: while the listener runs, every received 64 byte datagram that
\* carries a valid event is passed to the caller's handler exactly once, and
\* the handler is called in the order the datagrams arrived.
C13_EventsDelivered ==
    call = "UDPAsync.listen" => delivered = DecodedEvents(rx)

C13_Witness ==
    /\ call = "UDPAsync.listen" /\ Len(rx) = 3 /\ ~Is64(rx[2])
    /\ Len(delivered) = 2 /\ delivered[1].event_index > delivered[2].event_index

\* C14: a 64 byte frame that fails to decode does not terminate the
\* listener: the step that receives it leaves the listener and its socket as
\* they were, and events received after it are still delivered.
C14_DecodeFailureSurvived ==
    /\ [][(call = "UDPAsync.listen" /\ rx' # rx /\ BadFrame(rx'[Len(rx')]))
            => UNCHANGED <<pc, sock, lpc, delivered, outcome, response>>]_vars
    /\ [](call = "UDPAsync.listen" =>
            \A i, j \in 1..Len(rx) :
                (i < j /\ BadFrame(rx[i]) /\ Is64(rx[j]) /\ DecodeOk(rx[j]))
                    => \E k \in 1..Len(delivered) : delivered[k] = Event(rx[j]))

C14_Witness ==
    /\ call = "UDPAsync.listen" /\ Len(rx) = 2
    /\ Byte(rx[1], 1) = 255 /\ Is64(rx[1])
    /\ delivered = <<Event(rx[2])>> /\ Len(printed) = 1
    /\ sock = "open" /\ pc = "run" /\ lpc = "sleep"

\* C15: for each received 64 byte frame that fails to decode the listener
\* calls the caller's error callback exactly once with the decode error
\* ("invalid reply function code (ff)"), and does not call the event
\* handler for that frame.
C15_ErrorCallback ==
    call = "UDPAsync.listen" =>
        /\ errors = DecodeErrors(rx)
        /\ Len(delivered) + Len(errors) = Len(events)

\* C16: after the caller has set the close event it passed to listen, the
\* listener closes its socket and listen returns cleanly: a call that has
\* ended after the signal has returned None and left no socket open.
C16_CloseSignal ==
    (api = "listen" /\ closeSet /\ lpc = "done") =>
        /\ response = [kind |-> "return", exc |-> "", value |-> "None"]
        /\ sock # "open"

BindFailed ==
    /\ call = "UDPAsync.listen" /\ pc = "done"
    /\ src_port = 0 /\ outcome = Raise("OSError")

\* C17: if binding the listen address fails, the listen call raises that
\* error to its caller, and no event is ever delivered.
C17_BindFailure ==
    /\ [](BindFailed => delivered = <<>>)
    /\ BindFailed ~> (response = [kind |-> "raise", exc |-> "OSError", value |-> ""])

Rank(p) ==
    CASE p = "start" -> 0 [] p = "opened" -> 1 [] p = "run" -> 2 [] p = "done" -> 3

\* C18: the listener goes through Unbound, Bound, Running, Closed in this
\* order and Closed is terminal: once its socket is closed or the listener
\* has returned, no further event is delivered, the socket is never opened
\* again and the listener does not start again.
C18_ClosedIsTerminal ==
    [][call = "UDPAsync.listen" =>
         /\ Rank(pc') >= Rank(pc)
         /\ sock = "closed" =>
              sock' = "closed" /\ delivered' = delivered /\ events' = events
         /\ pc = "done" =>
              pc' = "done" /\ sock' = sock /\ delivered' = delivered
         /\ lpc = "done" => lpc' = "done"]_vars

C18_Witness ==
    /\ call = "UDPAsync.listen" /\ lpc = "done" /\ pc = "done"
    /\ sock = "closed" /\ Len(delivered) = 2 /\ Len(rx) = 2
    /\ response = [kind |-> "return", exc |-> "", value |-> "None"]

Range(s) == {s[i] : i \in 1..Len(s)}

Admitted == SelectSeq([i \in 1..arrived |-> i], LAMBDA e : e \notin Range(warned))

\* C20: on_event of the queued consumers drops an arriving event, with a
\* warning that names its event index, exactly when the queue holds
\* QUEUE_SIZE events (or more) at that moment; an event that arrives while
\* the queue holds fewer is enqueued, and is later processed exactly once.
C20_DropWhenFull ==
    /\ [][(consumer \in {"blocking", "on_event"} /\ arrived' # arrived) =>
            /\ arrived' = arrived + 1
            /\ IF Len(q) >= QUEUE_SIZE
               THEN warned' = Append(warned, arrived') /\ tasks' = tasks
               ELSE warned' = warned /\ tasks' = Append(tasks, arrived')]_vars
    /\ [](consumer \in {"blocking", "on_event"} =>
            Admitted = processed \o (IF taken = 0 THEN <<>> ELSE <<taken>>) \o q \o tasks)
    /\ \A e \in 1..MaxEvents :
         (consumer \in {"blocking", "on_event"} /\ arrived >= e /\ e \notin Range(warned))
            ~> (\E k \in 1..Len(processed) : processed[k] = e)

C20_Witness ==
    /\ consumer = "blocking" /\ warned = <<QUEUE_SIZE + 1>> /\ arrived = MaxEvents
    /\ Len(processed) = MaxEvents - 1 /\ q = <<>> /\ taken = 0

Returned == rresult.kind = "return"
Raised(exc) == rresult.kind = "raise" /\ rresult.exc = exc

\* C21: whenever a record-level function (get_status_record, get_card_record,
\* get_card_record_by_index, put_card_record, get_event_record,
\* get_time_profile_record) has ended on a reply whose controller serial
\* number differs from the one requested, it has raised InvalidResponse with
\* the message "invalid controller (<serial>)" naming the serial number of
\* the reply, and it has returned no record.
C21_InvalidController ==
    (rresult # NoResult /\ rreply.controller # rargs.controller)
       => /\ rresult = Error("InvalidResponse",
                    "invalid controller (" \o ToString(rreply.controller) \o ")")
          /\ rresult.value = <<>>

\* the call of scenario S6: asked of 303986753, answered by 405419896
C21_Witness ==
    /\ rop = "get_card_record"
    /\ rargs.controller = CONTROLLER_OTHER /\ rargs.card = CARD
    /\ rreply.controller = CONTROLLER /\ rreply.card_number = CARD
    /\ rresult.msg = "invalid controller (405419896)"

Validated == rresult # NoResult /\ rreply.controller = rargs.controller

\* C22: whenever get_card_record has ended on a reply of the requested
\* controller that carries a real card number (neither 0 nor 0xffffffff)
\* other than the requested one, it has raised InvalidResponse with the
\* message "invalid card (<card>)" naming the card number of the reply.
C22_InvalidCard ==
    (Validated /\ rop = "get_card_record"
       /\ rreply.card_number \notin {NOT_FOUND, DELETED, rargs.card})
       => rresult = Error("InvalidResponse",
              "invalid card ("
                 \o ToString(unpack_uint32(rreply.card_number, 0)) \o ")")

\* card 10058398 was asked for and the reply carries card 8165538
C22_Witness ==
    /\ rop = "get_card_record" /\ rargs.card = CARD_OTHER
    /\ rreply.card_number = CARD
    /\ rresult.msg = "invalid card (8165538)"

CardOps == {"get_card_record", "get_card_record_by_index"}

\* C23: whenever a card record function has ended on a reply of the requested
\* controller, it has raised CardNotFound exactly when the card number of
\* the reply is 0 and CardDeleted exactly when it is 0xffffffff; for a reply
\* of another controller neither is raised.
C23_CardSentinels ==
    (rresult # NoResult /\ rop \in CardOps)
       => /\ Raised("CardNotFound")
               <=> (Validated /\ rreply.card_number = NOT_FOUND)
          /\ Raised("CardDeleted")
               <=> (Validated /\ rreply.card_number = DELETED)

\* a card was asked for by number and the reply carries card number 0: the
\* error is CardNotFound, not the card mismatch
C23_Witness ==
    /\ rop = "get_card_record" /\ rargs.card = CARD
    /\ rreply.card_number = NOT_FOUND /\ Raised("CardNotFound")

EventSentinel == rreply.index = 0 \/ rreply.event_type = EVENT_OVERWRITTEN

Decoding == api \in {"get_controller", "get_all_controllers"}

\* the 64 byte replies the transport returned whose function code is not the
\* one of the request
WrongReplies ==
    SelectSeq(outcome.value, LAMBDA p : Byte(p, 1) # Byte(request, 1))

\* C26: whenever a request/reply function has ended after its transport
\* returned a 64 byte reply whose function byte differs from the request's,
\* it has raised the protocol error "invalid reply function code (<code>)"
\* naming the function code of that reply, and has returned no record.
C26_FunctionCode ==
    (Decoding /\ pc = "done" /\ outcome.kind = "return" /\ WrongReplies # <<>>)
       => /\ response = InvalidReply("invalid reply function code ("
                                       \o Hex(Byte(WrongReplies[1], 1)) \o ")")
          /\ decoded = <<>>

\* get_controller was sent and the first 64 byte datagram on its socket has
\* function code 0xff
C26_Witness ==
    /\ api = "get_controller" /\ pc = "done"
    /\ sent = <<request>> /\ Byte(request, 1) = GET_CONTROLLER
    /\ outcome = Return(WrongFunction)
    /\ response.value = "invalid reply function code (ff)"

\* C27: get_all_controllers sends one get-controller request with serial
\* number 0 to the broadcast address, and whenever it has returned, it has
\* returned a list with one record per 64 byte reply received, in the order
\* received: the empty list when there was none.
C27_AllControllers ==
    api = "get_all_controllers" =>
       /\ sent # <<>> =>
            /\ sent = <<request>>
            /\ Byte(request, 1) = GET_CONTROLLER
            /\ unpack_uint32(request, 4) = 0
            /\ remote.addr = BROADCAST_ADDR
       /\ (pc = "done" /\ response.kind = "return") =>
            /\ response.value = "list"
            /\ Len(decoded) = Len(Only64(rx))
            /\ \A i \in 1..Len(decoded) :
                 decoded[i] = [controller |-> unpack_uint32(Only64(rx)[i], 4)]

\* controller 2 answered before controller 1
C27_Witness ==
    /\ api = "get_all_controllers" /\ pc = "done" /\ response.value = "list"
    /\ Only64(rx) = <<Packet(2, FrameLen), Packet(1, FrameLen)>>
    /\ decoded = <<[controller |-> 2], [controller |-> 1]>>

\* no controller answered
C27_WitnessEmpty ==
    /\ api = "get_all_controllers" /\ pc = "done" /\ response.value = "list"
    /\ sent = <<request>> /\ Only64(rx) = <<>> /\ decoded = <<>>

\* the transport's connection_made has run and has not refused to send
Connected ==
    /\ pc # "start" /\ src_port # 0
    /\ ~(call = "UDPAsync.broadcast" /\ Broadcast_guard(src_port, BROADCAST_PORT))

\* C29: a call of a dispatcher function never has its request on the wire
\* more than once, and has it there exactly once from the moment its
\* transport is connected: also after a timeout, a transport error, a lost
\* connection or a cancellation.
C29_TransmittedOnce ==
    api # "listen" =>
       /\ Len(sent) <= 1
       /\ Connected => sent = <<request>>
       /\ (pc = "done" /\ (timedout \/ lost \/ outcome.kind = "raise"))
             => sent \in {<<>>, <<request>>}

\* the call has timed out and has ended
C29_Witness ==
    /\ api = "get_controller" /\ timedout /\ pc = "done"
    /\ outcome.kind \in {"return", "raise"} /\ sent = <<request>>

RECURSIVE SumRx(_)
SumRx(cs) ==
    IF cs = {} THEN 0
    ELSE LET c == CHOOSE x \in cs : TRUE IN Len(calls[c].rx) + SumRx(cs \ {c})

\* C28: calls in flight at the same time on one shared object have distinct
\* sockets; every delivery is consumed by exactly the call that owns the
\* socket it arrived on; and a call that returns a frame returns the reply
\* to its own request, received on its own socket.
C28_OwnSocket ==
    calls # <<>> =>
       /\ \A c, d \in Calls :
            (c # d /\ calls[c].sock = "open" /\ calls[d].sock = "open")
               => calls[c].port # calls[d].port
       /\ SumRx(Calls) = wire.n
       /\ \A c \in Calls :
            /\ \A i \in 1..Len(calls[c].rx) :
                 [port |-> calls[c].port, data |-> calls[c].rx[i]] \in wire.seen
            /\ (calls[c].outcome.kind = "return" /\ ~calls[c].outcome.isNone)
                 => /\ TotalLen(calls[c].rx) >= FrameLen
                    /\ calls[c].outcome = Return(Reply(c, calls[c]))

\* call 2 received controller 2's reply first and is still in flight when
\* call 1 returns controller 1's reply
C28_Witness ==
    /\ calls # <<>>
    /\ calls[1].transport = "udp" /\ calls[2].transport = "udp"
    /\ wire.n = 2 /\ calls[1].port # calls[2].port
    /\ calls[1].pc = "done" /\ calls[1].outcome = Return(Packet(1, FrameLen))
    /\ calls[1].rx = <<Packet(1, FrameLen)>>
    /\ calls[2].pc = "run" /\ calls[2].done = Result(Packet(2, FrameLen))

\* the payloads the stream received so far can belong to
StreamOf(tag) == TotalLen(rx) > 0 /\ Concat(rx) = Chunk(tag, 0, TotalLen(rx))

\* C31: the cooperative TCP send holds the concatenation of everything
\* data_received delivered; its future carries a frame only once 64 bytes
\* have been received, and that frame (and the frame the call returns) is
\* the first 64 bytes of the peer's stream, whatever the chunking; once 64
\* bytes are held and nothing else happened, the future is resolved.
C31_Accumulates ==
    (call = "TCPAsync.send" /\ NotSetIP) =>
        /\ buffer = Concat(rx)
        /\ \A tag \in 1..NTags :
             (StreamOf(tag) /\ done.state = "result")
                => /\ TotalLen(rx) >= FrameLen
                   /\ done = Result(Chunk(tag, 0, FrameLen))
        /\ \A tag \in 1..NTags :
             (StreamOf(tag) /\ outcome.kind = "return")
                => /\ TotalLen(rx) >= FrameLen
                   /\ outcome = Return(Chunk(tag, 0, FrameLen))
        /\ (TotalLen(rx) >= FrameLen /\ Undisturbed) => done.state = "result"
        /\ TotalLen(rx) < FrameLen => done.state # "result"

\* the reply came in two chunks of 40 bytes, 80 bytes in all, and the call
\* returned the first 64 of them
C31_Witness ==
    /\ call = "TCPAsync.send" /\ NotSetIP /\ pc = "done"
    /\ Len(rx) = 2 /\ Len(rx[1]) = 40 /\ Len(rx[2]) = 40
    /\ outcome = Return(Chunk(1, 0, FrameLen))

\* C32: in the blocking TCP send, as soon as the recv calls have delivered
\* 64 bytes in all, the call has returned the first 64 bytes of the peer's
\* stream, however they were split over the recv calls.
C32_PartialReads ==
    (call = "TCP.send" /\ NotSetIP /\ TotalLen(rx) >= FrameLen)
        => /\ pc = "done"
           /\ outcome = Return(SubSeq(Concat(rx), 1, FrameLen))

\* C33: the timeout of a blocking TCP send bounds the whole call: the call
\* is never still reading once more than the time limit has passed, also
\* when the peer, its connection open, keeps delivering chunks that are not
\* 64 bytes long
C33_TimeoutBoundsCall ==
    (call = "TCP.send" /\ pc = "read" /\ eofReads = 0) => clock <= TimeLimit

\* C34: for the same request and the same behaviour of the peer (chunks
\* delivered, then close, reset or silence) the blocking and the cooperative
\* TCP send end the same way: once the peer has finished and the cooperative
\* call has ended, the blocking call has ended with the same frame or with
\* an error of the same kind
C34_TwinsAgree ==
    (twin.ended /\ twin.coop # NoOutcome) => twin.blocking = twin.coop

\* C35: in the request protocols no callback sets a result or an exception
\* on a future that is already completed or cancelled: whenever EOF or the
\* loss of the connection made a callback set the future, the future was
\* still pending
C35_ResolvedOnce ==
    \A i \in 1..Len(trace) : trace[i].set => trace[i].pending

\* C36: a UDPAsync.send without a destination address, which broadcasts the
\* request, never returns the caller's own request frame as the reply, also
\* when its socket is bound to the port it broadcasts to
C36_NoSelfReply ==
    (call = "UDPAsync.send" /\ dest_addr = "None") => outcome # Return(request)

\* C37: UDPAsync.broadcast never ends before its timeout has elapsed unless
\* the self-broadcast guard raised its error
C37_OnlyGuardExitsEarly ==
    (call = "UDPAsync.broadcast" /\ pc = "done" /\ ~timedout)
        => outcome = Raise("RuntimeError")

\* C37 (amended): UDPAsync.broadcast never returns a reply list before its
\* timeout has elapsed, however many replies have arrived; a call that ends
\* earlier raises: the error of the self-broadcast guard, the error of a
\* failed bind, or the cancellation of the caller
C37_NoListBeforeTimeout ==
    (call = "UDPAsync.broadcast" /\ pc = "done") =>
        /\ outcome.kind = "return" => (timedout /\ outcome = ReturnList(replies))
        /\ ~timedout =>
              outcome \in {Raise("RuntimeError"), Raise("OSError"), Raise("CancelledError")}
        /\ outcome = Raise("RuntimeError") => src_port = BROADCAST_PORT

C37_Witness ==
    /\ call = "UDPAsync.broadcast" /\ pc = "done" /\ timedout
    /\ Len(replies) = 2 /\ Len(rx) = 2 /\ outcome = ReturnList(replies)

Raised_on_event == \E i \in 1..Len(printed) : printed[i] = OnEventError

\* C38: an exception raised by the caller's event handler is contained by
\* the listener: the step in which the handler raises leaves the listener
\* running and its socket open, and every valid event received, before or
\* after, is passed to the handler
C38_HandlerErrorContained ==
    /\ [][(call = "UDPAsync.listen" /\ printed' = Append(printed, OnEventError))
            => UNCHANGED <<pc, sock, lpc, outcome, response>>]_vars
    /\ []((call = "UDPAsync.listen" /\ Raised_on_event)
            => delivered = DecodedEvents(rx))

C38_Witness ==
    /\ call = "UDPAsync.listen" /\ Len(rx) = 2
    /\ printed = <<OnEventError>> /\ delivered = <<Event(rx[1]), Event(rx[2])>>
    /\ sock = "open" /\ pc = "run" /\ lpc = "sleep"

\* the replies collected by the broadcast that do not decode as replies to
\* the request
Undecodable ==
    {i \in 1..Len(outcome.value) : ReplyError(Byte(request, 1), outcome.value[i]) # ""}

\* C39: if any reply collected by get_all_controllers cannot be decoded, the
\* call raises the decode error and returns no list, not even of the replies
\* that are valid; a call that returned a list has decoded every reply
C39_NoPartialList ==
    (api = "get_all_controllers" /\ pc = "done" /\ outcome.kind = "return") =>
        IF Undecodable # {}
        THEN /\ response.kind = "raise" /\ response.exc = "InvalidResponse"
             /\ decoded = <<>>
        ELSE /\ response.value = "list"
             /\ Len(decoded) = Len(outcome.value)

\* a valid reply was collected before the reply that does not decode
C39_Witness ==
    /\ api = "get_all_controllers" /\ pc = "done"
    /\ outcome = ReturnList(<<Packet(1, FrameLen), WrongFunction>>)
    /\ response = InvalidReply("invalid reply function code (ff)")
    /\ decoded = <<>>

\* every call has ended
AllDone == calls # <<>> /\ \A c \in Calls : calls[c].pc = "done"

\* C40: no transport operation modifies the configuration of the transport
\* object (bind, broadcast and listen addresses, debug flag) or leaves
\* per-call state on it: no step of any call changes the object, which holds
\* nothing but its configuration, whatever the outcomes of the calls
C40_ObjectUnchanged ==
    /\ [][self' = self]_vars
    /\ [](calls # <<>> =>
            /\ \E args \in ConstructorArgs : self = UDPAsync_init(args)
            /\ \A c \in Calls : calls[c].pc # "start" => calls[c].bind = self.bind[1])

\* two calls on an object with other than the default configuration have
\* ended, one with a reply and one with a timeout
C40_Witness ==
    /\ AllDone /\ self.debug /\ self.bind[1] = "192.168.1.10"
    /\ calls[1].outcome.kind = "return" /\ calls[2].outcome = Raise("TimeoutError")
    /\ self.percall = <<>>

====
